---- MODULE Spec2Model ----
(***************************************************************************)
(* Options analytics core of options-cockpit: the closed-form pricer       *)
(* (black_scholes.py), the implied-volatility solver (implied_vol.py) and  *)
(* the multi-leg portfolio engine (portfolio.py, payoff.py).               *)
(*                                                                         *)
(* The floats of the pricer and the solver are modelled as fixed-point     *)
(* integers.  Prices, strikes, rates, times and volatilities are counted   *)
(* in units of 1/SC; the                                                   *)
(* intermediate quantities of the pricer (d1, d2, logarithms, discount     *)
(* factors) in units of 1/QS; probabilities in units of 1/CS.  Every       *)
(* division rounds down, as \div does.                                     *)
(***************************************************************************)
EXTENDS Integers, Sequences, FiniteSets, TLC

SC == 1000
QS == 10000
CS == 2 * QS


Abs(x) == IF x < 0 THEN -x ELSE x
Max(a, b) == IF a >= b THEN a ELSE b
Min(a, b) == IF a <= b THEN a ELSE b
Sign(x) == IF x > 0 THEN 1 ELSE IF x < 0 THEN -1 ELSE 0

\* floor(a * b / c) for a, b >= 0 and c > 0 without forming a * b
MulDiv(a, b, c) == (a \div c) * b + ((a % c) * b) \div c

(***************************************************************************)
(* math.sqrt, math.exp, math.log and math.erf in fixed point               *)
(***************************************************************************)
RECURSIVE SqrtIter(_, _, _)
SqrtIter(n, lo, hi) ==
    IF hi - lo <= 1 THEN lo
    ELSE LET mid == (lo + hi) \div 2
         IN  IF mid * mid <= n THEN SqrtIter(n, mid, hi) ELSE SqrtIter(n, lo, mid)

\* floor(sqrt(n)) for 0 <= n < 2^30
ISqrt(n) == SqrtIter(n, 0, 32768)

\* math.sqrt(T): T in 1/SC, the result in 1/QS
MathSqrt(T) == ISqrt(T * ((QS * QS) \div SC))

\* math.exp(x): x and the result in 1/QS; the Taylor series to the 10th power
MathExp(x) ==
    LET t1 == (QS * x) \div (QS * 1)
        t2 == (t1 * x) \div (QS * 2)
        t3 == (t2 * x) \div (QS * 3)
        t4 == (t3 * x) \div (QS * 4)
        t5 == (t4 * x) \div (QS * 5)
        t6 == (t5 * x) \div (QS * 6)
        t7 == (t6 * x) \div (QS * 7)
        t8 == (t7 * x) \div (QS * 8)
        t9 == (t8 * x) \div (QS * 9)
        t10 == (t9 * x) \div (QS * 10)
    IN  QS + t1 + t2 + t3 + t4 + t5 + t6 + t7 + t8 + t9 + t10

\* math.log(y) for y > 0: y and the result in 1/QS; 2 * atanh((y-1)/(y+1))
MathLog(y) ==
    LET z == ((y - QS) * QS) \div (y + QS)
        z2 == (z * z) \div QS
        p3 == (z * z2) \div QS
        p5 == (p3 * z2) \div QS
        p7 == (p5 * z2) \div QS
        p9 == (p7 * z2) \div QS
        p11 == (p9 * z2) \div QS
        p13 == (p11 * z2) \div QS
    IN  2 * (z + p3 \div 3 + p5 \div 5 + p7 \div 7 + p9 \div 9 + p11 \div 11
               + p13 \div 13)

\* erf(x / sqrt(2)) at x = 0, 0.05, 0.10, ..., 4.05, in 1/QS
ErfTable ==
  << 0, 399, 797, 1192, 1585, 1974, 2358, 2737, 3108, 3473, 3829, 4177,
     4515, 4843, 5161, 5467, 5763, 6047, 6319, 6579, 6827, 7063, 7287, 7499,
     7699, 7887, 8064, 8230, 8385, 8529, 8664, 8789, 8904, 9011, 9109, 9199,
     9281, 9357, 9426, 9488, 9545, 9596, 9643, 9684, 9722, 9756, 9786, 9812,
     9836, 9857, 9876, 9892, 9907, 9920, 9931, 9940, 9949, 9956, 9963, 9968,
     9973, 9977, 9981, 9984, 9986, 9988, 9990, 9992, 9993, 9994, 9995, 9996,
     9997, 9997, 9998, 9998, 9999, 9999, 9999, 9999, 10000, 10000 >>

\* math.erf(x / math.sqrt(2.0)): x and the result in 1/QS; erf is odd, and the
\* table is interpolated linearly between its points
ErfSqrt2(x) ==
    LET a == Abs(x)
        i == a \div 500
        f == a % 500
        e == IF a >= 4 * QS THEN QS
             ELSE ErfTable[i + 1] + ((ErfTable[i + 2] - ErfTable[i + 1]) * f) \div 500
    IN  IF x < 0 THEN -e ELSE e

\* _norm_cdf(x) = 0.5 * (1 + erf(x / sqrt 2)): x in 1/QS, the result in 1/CS
norm_cdf(x) == QS + ErfSqrt2(x)

(***************************************************************************)
(* black_scholes (black_scholes.py)                                        *)
(***************************************************************************)
BSFail(e) == [err |-> e, call_price |-> 0, put_price |-> 0]
BSResult(c, p) == [err |-> "none", call_price |-> c, put_price |-> p]

\* a weaker precondition: sigma = 0 is let through
BSInvalidNoSigmaZero(S, K, T, sigma) ==
    IF S <= 0 \/ K <= 0 THEN TRUE
    ELSE IF T <= 0 THEN TRUE
    ELSE sigma < 0

\* the three guards of black_scholes
BSInvalid(S, K, T, sigma) ==
    IF S <= 0 \/ K <= 0 THEN TRUE
    ELSE IF T <= 0 THEN TRUE
    ELSE sigma <= 0

\* the put formula with N(d2) in place of N(-d2)
BSPutWrongCdf(Kd, Sd, d1, d2) ==
    (Kd * norm_cdf(d2)) \div CS - (Sd * norm_cdf(-d1)) \div CS

\* call = S*disc_q*Nd1 - K*disc_r*Nd2, Sd = S*disc_q and Kd = K*disc_r
BSCall(Sd, Kd, d1, d2) ==
    (Sd * norm_cdf(d1)) \div CS - (Kd * norm_cdf(d2)) \div CS

\* put = K*disc_r*Nmd2 - S*disc_q*Nmd1
BSPut(Kd, Sd, d1, d2) ==
    (Kd * norm_cdf(-d2)) \div CS - (Sd * norm_cdf(-d1)) \div CS

\* disc_r = exp(-r*T), disc_q = exp(-q*T), in 1/QS
Disc(r, T) == MathExp((-r * T) \div ((SC * SC) \div QS))

\* The body of black_scholes after its guards.  d1 is formed as
\* m / v + v / 2 with m = log(S/K) + (r - q) * T and v = sigma * sqrtT, which is
\* (log(S/K) + (r - q + 0.5*sigma*sigma) * T) / (sigma * sqrtT) divided through.
\* A zero divisor raises ZeroDivisionError.
BSPrice(S, K, T, r, q, sigma) ==
    LET sqrtT == MathSqrt(T)
        v == MulDiv(sigma, sqrtT, SC)
        m == MathLog((S * QS) \div K) + ((r - q) * T) \div ((SC * SC) \div QS)
    IN  IF v = 0 THEN BSFail("ZeroDivisionError")
        ELSE LET d1 == (m * QS) \div v + v \div 2
                 d2 == d1 - v
                 Sd == (S * Disc(q, T)) \div QS
                 Kd == (K * Disc(r, T)) \div QS
             IN  BSResult(BSCall(Sd, Kd, d1, d2), BSPut(Kd, Sd, d1, d2))

black_scholes(S, K, T, r, q, sigma) ==
    IF BSInvalid(S, K, T, sigma) THEN BSFail("ValueError")
    ELSE BSPrice(S, K, T, r, q, sigma)

(***************************************************************************)
(* str.lower() and str.strip(); a string is a sequence of characters       *)
(***************************************************************************)
UpperChars == << "A", "B", "C", "D", "E", "F", "G", "H", "I", "J", "K", "L", "M",
                 "N", "O", "P", "Q", "R", "S", "T", "U", "V", "W", "X", "Y", "Z" >>
LowerChars == << "a", "b", "c", "d", "e", "f", "g", "h", "i", "j", "k", "l", "m",
                 "n", "o", "p", "q", "r", "s", "t", "u", "v", "w", "x", "y", "z" >>
Whitespace == { " ", "\t", "\n" }

LowerChar(c) ==
    IF \E k \in 1..26 : UpperChars[k] = c
    THEN LowerChars[CHOOSE k \in 1..26 : UpperChars[k] = c]
    ELSE c

StrLower(s) == [k \in 1..Len(s) |-> LowerChar(s[k])]

StrStrip(s) ==
    LET keep == { k \in 1..Len(s) : s[k] \notin Whitespace }
    IN  IF keep = {} THEN << >>
        ELSE LET a == CHOOSE k \in keep : \A j \in keep : k <= j
                 b == CHOOSE k \in keep : \A j \in keep : k >= j
             IN  SubSeq(s, a, b)

\* option_type.lower().strip()
NormType(s) == StrStrip(StrLower(s))

CallStr == << "c", "a", "l", "l" >>
PutStr == << "p", "u", "t" >>

(***************************************************************************)
(* implied_vol_bisection (implied_vol.py)                                  *)
(***************************************************************************)
VARIABLES
    bs_in,      \* the arguments of a black_scholes call
    bs_out,     \* its outcome; err is "pending" until it has run
    iv_in,      \* the arguments of an implied_vol_bisection call
    iv_sigma0,  \* the volatility market_price was priced at, 0 for a free price
    iv,         \* the locals of the call and its position
    iv_out,     \* its outcome; err is "pending" until it has ended
    pf_op,      \* the portfolio function called: "pnl", "cashflow", "single"
    pf_legs,    \* its legs
    pf_S,       \* the underlying price at expiry
    pf_out,     \* its outcome; err is "pending" until it has run
    cv_in,      \* the arguments of a portfolio_curve call, and the tolerance
    cv_curve,   \* the curve: the one portfolio_curve returned, or one given
    cv_bes,     \* what breakevens_from_curve returned for the curve
    rc_in,      \* the arguments of a chain or recommender call, and its draws
    rc_pc,      \* the position of the call
    rc_chain,   \* the chain make_chain returned
    rc_cands,   \* candidates of pick_best_strategy, in the order appended
    rc_cons,    \* constrained of pick_best_strategy
    rc_out,     \* what the call returned; err is "pending" until it has ended
    sv_rows,    \* the committed rows of the saved_items table, in id order
    sv_seq,     \* the highest id the table has handed out
    sv_out      \* the response to the last request to a saved_items route

bsVars == << bs_in, bs_out >>
ivVars == << iv_in, iv_sigma0, iv, iv_out >>
pfVars == << pf_op, pf_legs, pf_S, pf_out >>
cvVars == << cv_in, cv_curve, cv_bes >>
rcVars == << rc_in, rc_pc, rc_chain, rc_cands, rc_cons, rc_out >>
svVars == << sv_rows, sv_seq, sv_out >>

VolLow == 1
VolHigh == 5000
MaxExpand == 20
MaxIter == 200

\* a product's sign: a * b > 0 and a * b <= 0 are decided on this, the
\* product itself is never formed
SignProd(a, b) == Sign(a) * Sign(b)

IVFail(e) == [err |-> e, implied_vol |-> 0, iterations |-> 0]
IVResult(v, n) == [err |-> "none", implied_vol |-> v, iterations |-> n]

\* price_for(vol) with the option type already normalised
price_for(in, opt, vol) ==
    LET res == black_scholes(in.S, in.K, in.T, in.r, in.q, vol)
    IN  [err |-> res.err,
         price |-> IF opt = CallStr THEN res.call_price ELSE res.put_price]

\* market_price = 0 is let through
IVArgErrorZeroPrice(market_price, opt) ==
    IF market_price < 0 THEN "ValueError"
    ELSE IF opt \notin { CallStr, PutStr } THEN "ValueError"
    ELSE "none"

\* lines 22-26: a failure of the argument checks, or "none"
IVArgError(market_price, opt) ==
    IF market_price <= 0 THEN "ValueError"
    ELSE IF opt \notin { CallStr, PutStr } THEN "ValueError"
    ELSE "none"

\* the expansion budget is not enforced at MaxExpand
ExpandCondLateCap(f_low, f_high, expand_steps) ==
    SignProd(f_low, f_high) > 0 /\ expand_steps < MaxExpand + 2

\* the while condition of the expansion loop
ExpandCond(f_low, f_high, expand_steps) ==
    SignProd(f_low, f_high) > 0 /\ expand_steps < MaxExpand

\* vol_high *= 1.5
ExpandHigh(vol_high) == (vol_high * 3) \div 2

\* the convergence test of one bisection iteration
Converged(f_mid, low, high, tol) ==
    Abs(f_mid) < tol \/ high - low < 2 * tol

\* the loop runs one iteration too many
LoopContinuesOneMore(i, max_iter) == i <= max_iter + 1

\* for i in range(1, max_iter + 1)
LoopContinues(i, max_iter) == i <= max_iter

\* mid = (low + high) / 2.0
Midpoint(low, high) == (low + high) \div 2

\* the half that does not hold the root is kept
KeepLowerWrongHalf(f_low, f_mid) == SignProd(f_low, f_mid) > 0

\* the test that keeps the lower half: f_low * f_mid <= 0
KeepLower(f_low, f_mid) == SignProd(f_low, f_mid) <= 0

IVStart == [pc |-> "start", opt |-> << >>, f_low |-> 0, f_high |-> 0,
            vol_high |-> 0, expand_steps |-> 0, low |-> 0, high |-> 0,
            i |-> 0, evals |-> 0, mids |-> 0, b_low |-> 0, b_high |-> 0]

IVIdle == [IVStart EXCEPT !.pc = "idle"]

\* lines 22-26
IVValidate ==
    /\ iv.pc = "start"
    /\ LET opt == NormType(iv_in.option_type)
           e == IVArgError(iv_in.market_price, opt)
       IN  IF e # "none"
           THEN /\ iv' = [iv EXCEPT !.pc = "done"]
                /\ iv_out' = IVFail(e)
           ELSE /\ iv' = [iv EXCEPT !.pc = "f_low", !.opt = opt]
                /\ iv_out' = iv_out
    /\ UNCHANGED << svVars, bsVars, pfVars, cvVars, rcVars, iv_in, iv_sigma0 >>

\* line 33: f_low = price_for(vol_low) - market_price
IVEvalLow ==
    /\ iv.pc = "f_low"
    /\ LET p == price_for(iv_in, iv.opt, iv_in.vol_low)
       IN  IF p.err # "none"
           THEN /\ iv' = [iv EXCEPT !.pc = "done", !.evals = @ + 1]
                /\ iv_out' = IVFail(p.err)
           ELSE /\ iv' = [iv EXCEPT !.pc = "f_high", !.evals = @ + 1,
                                    !.f_low = p.price - iv_in.market_price]
                /\ iv_out' = iv_out
    /\ UNCHANGED << svVars, bsVars, pfVars, cvVars, rcVars, iv_in, iv_sigma0 >>

\* lines 34-37: f_high = price_for(vol_high) - market_price; expand_steps = 0
IVEvalHigh ==
    /\ iv.pc = "f_high"
    /\ LET p == price_for(iv_in, iv.opt, iv_in.vol_high)
       IN  IF p.err # "none"
           THEN /\ iv' = [iv EXCEPT !.pc = "done", !.evals = @ + 1]
                /\ iv_out' = IVFail(p.err)
           ELSE /\ iv' = [iv EXCEPT !.pc = "expand", !.evals = @ + 1,
                                    !.vol_high = iv_in.vol_high,
                                    !.f_high = p.price - iv_in.market_price,
                                    !.expand_steps = 0]
                /\ iv_out' = iv_out
    /\ UNCHANGED << svVars, bsVars, pfVars, cvVars, rcVars, iv_in, iv_sigma0 >>

\* lines 38-41: one turn of the expansion loop
IVExpand ==
    /\ iv.pc = "expand"
    /\ ExpandCond(iv.f_low, iv.f_high, iv.expand_steps)
    /\ LET vh == ExpandHigh(iv.vol_high)
           p == price_for(iv_in, iv.opt, vh)
       IN  IF p.err # "none"
           THEN /\ iv' = [iv EXCEPT !.pc = "done", !.evals = @ + 1]
                /\ iv_out' = IVFail(p.err)
           ELSE /\ iv' = [iv EXCEPT !.vol_high = vh, !.evals = @ + 1,
                                    !.f_high = p.price - iv_in.market_price,
                                    !.expand_steps = @ + 1]
                /\ iv_out' = iv_out
    /\ UNCHANGED << svVars, bsVars, pfVars, cvVars, rcVars, iv_in, iv_sigma0 >>

\* lines 43-46: the loop has ended; fail when unbracketed, else low, high = ...
IVBracket ==
    /\ iv.pc = "expand"
    /\ ~ExpandCond(iv.f_low, iv.f_high, iv.expand_steps)
    /\ IF SignProd(iv.f_low, iv.f_high) > 0
       THEN /\ iv' = [iv EXCEPT !.pc = "done"]
            /\ iv_out' = IVFail("ValueError")
       ELSE /\ iv' = [iv EXCEPT !.pc = "bisect", !.low = iv_in.vol_low,
                                !.high = iv.vol_high, !.i = 1,
                                !.b_low = iv_in.vol_low, !.b_high = iv.vol_high]
            /\ iv_out' = iv_out
    /\ UNCHANGED << svVars, bsVars, pfVars, cvVars, rcVars, iv_in, iv_sigma0 >>

\* lines 47-60: iteration i of the bisection loop
IVBisect ==
    /\ iv.pc = "bisect"
    /\ LoopContinues(iv.i, iv_in.max_iter)
    /\ LET mid == Midpoint(iv.low, iv.high)
           p == price_for(iv_in, iv.opt, mid)
           f_mid == p.price - iv_in.market_price
       IN  IF p.err # "none"
           THEN /\ iv' = [iv EXCEPT !.pc = "done", !.evals = @ + 1, !.mids = @ + 1]
                /\ iv_out' = IVFail(p.err)
           ELSE IF Converged(f_mid, iv.low, iv.high, iv_in.tol)
           THEN /\ iv' = [iv EXCEPT !.pc = "done", !.evals = @ + 1, !.mids = @ + 1]
                /\ iv_out' = IVResult(mid, iv.i)
           ELSE IF KeepLower(iv.f_low, f_mid)
           THEN /\ iv' = [iv EXCEPT !.high = mid, !.f_high = f_mid, !.i = @ + 1,
                                    !.evals = @ + 1, !.mids = @ + 1]
                /\ iv_out' = iv_out
           ELSE /\ iv' = [iv EXCEPT !.low = mid, !.f_low = f_mid, !.i = @ + 1,
                                    !.evals = @ + 1, !.mids = @ + 1]
                /\ iv_out' = iv_out
    /\ UNCHANGED << svVars, bsVars, pfVars, cvVars, rcVars, iv_in, iv_sigma0 >>

\* line 62: the loop ran max_iter times without converging
IVReturnFinal ==
    /\ iv.pc = "bisect"
    /\ ~LoopContinues(iv.i, iv_in.max_iter)
    /\ iv' = [iv EXCEPT !.pc = "done"]
    /\ iv_out' = IVResult(Midpoint(iv.low, iv.high), iv_in.max_iter)
    /\ UNCHANGED << svVars, bsVars, pfVars, cvVars, rcVars, iv_in, iv_sigma0 >>

(***************************************************************************)
(* The portfolio engine (portfolio.py) and single_option_pnl (payoff.py).  *)
(* An optional field is << >> for None and << v >> for a value; option_type *)
(* and side are strings, instrument is compared as it stands.              *)
(*                                                                         *)
(* The numbers of this part are binary floating-point numbers: Python's    *)
(* float with the significand cut down to FloatBits bits, so that the      *)
(* rounding of every +, -, * and / happens on small numbers.  Every value  *)
(* is an integer number of units, the spacing of the smallest numbers; Fl  *)
(* rounds the exact result of an operation to the nearest representable    *)
(* number, ties to the even significand.                                   *)
(***************************************************************************)
FloatBits == 7

RECURSIVE Pow2(_)
Pow2(n) == IF n = 0 THEN 1 ELSE 2 * Pow2(n - 1)

\* the spacing of the representable numbers around a >= 0
RECURSIVE UlpFrom(_, _)
UlpFrom(a, q) == IF a \div q < Pow2(FloatBits) THEN q ELSE UlpFrom(a, 2 * q)

Fl(x) ==
    LET a == Abs(x)
        q == UlpFrom(a, 1)
        m == a \div q
        rest == a % q
        up == 2 * rest > q \/ (2 * rest = q /\ m % 2 = 1)
    IN  Sign(x) * (IF up THEN m + 1 ELSE m) * q

FAdd(a, b) == Fl(a + b)
FSub(a, b) == Fl(a - b)
FMul(a, b) == Fl(a * b)

\* a / b for b # 0: the quotient rounded to the nearest representable number
FDiv(a, b) ==
    LET n == Abs(a)
        d == Abs(b)
        q == UlpFrom(n \div d, 1)
        m == n \div (d * q)
        rest == n - m * d * q
        up == 2 * rest > d * q \/ (2 * rest = d * q /\ m % 2 = 1)
    IN  Fl(Sign(a) * Sign(b) * (IF up THEN m + 1 ELSE m) * q)

LongStr == << "l", "o", "n", "g" >>
ShortStr == << "s", "h", "o", "r", "t" >>

IsNone(x) == x = << >>
Val(x) == x[1]

PFail(e) == [err |-> e, value |-> 0]
POk(v) == [err |-> "none", value |-> v]

\* the payoff of a put is computed as that of a call
PayoffPutAsCall(ot, S, K) ==
    IF ot = CallStr THEN POk(Max(FSub(S, K), 0))
    ELSE IF ot = PutStr THEN POk(Max(FSub(S, K), 0))
    ELSE PFail("ValueError")

\* the payoff by normalised option type
Payoff(ot, S, K) ==
    IF ot = CallStr THEN POk(Max(FSub(S, K), 0))
    ELSE IF ot = PutStr THEN POk(Max(FSub(K, S), 0))
    ELSE PFail("ValueError")

\* _payoff_at_expiry(option_type, S, K)
payoff_at_expiry(option_type, S, K) == Payoff(NormType(option_type), S, K)

\* a negative premium is let through
OptionLegErrorNoPremiumSign(leg) ==
    IF IsNone(leg.option_type) THEN "ValueError"
    ELSE IF IsNone(leg.strike) \/ (~IsNone(leg.strike) /\ Val(leg.strike) <= 0)
    THEN "ValueError"
    ELSE IF IsNone(leg.premium) THEN "ValueError"
    ELSE IF leg.qty <= 0 THEN "ValueError"
    ELSE IF leg.contract_size <= 0 THEN "ValueError"
    ELSE "none"

\* the five guards of _option_leg_pnl
OptionLegError(leg) ==
    IF IsNone(leg.option_type) THEN "ValueError"
    ELSE IF IsNone(leg.strike) \/ (~IsNone(leg.strike) /\ Val(leg.strike) <= 0)
    THEN "ValueError"
    ELSE IF IsNone(leg.premium) \/ (~IsNone(leg.premium) /\ Val(leg.premium) < 0)
    THEN "ValueError"
    ELSE IF leg.qty <= 0 THEN "ValueError"
    ELSE IF leg.contract_size <= 0 THEN "ValueError"
    ELSE "none"

\* pnl_per_share of _option_leg_pnl by side
SidePnl(side, payoff, premium) ==
    IF side = LongStr THEN POk(FSub(payoff, premium))
    ELSE IF side = ShortStr THEN POk(FSub(premium, payoff))
    ELSE PFail("ValueError")

option_leg_pnl(leg, S) ==
    IF OptionLegError(leg) # "none" THEN PFail(OptionLegError(leg))
    ELSE LET payoff == payoff_at_expiry(Val(leg.option_type), S, Val(leg.strike))
         IN  IF payoff.err # "none" THEN payoff
             ELSE LET pps == SidePnl(leg.side, payoff.value, Val(leg.premium))
                  IN  IF pps.err # "none" THEN pps
                      ELSE POk(FMul(FMul(pps.value, leg.qty), leg.contract_size))

stock_leg_pnl(leg, S) ==
    IF IsNone(leg.shares) \/ (~IsNone(leg.shares) /\ Val(leg.shares) <= 0)
    THEN PFail("ValueError")
    ELSE IF IsNone(leg.entry_price)
              \/ (~IsNone(leg.entry_price) /\ Val(leg.entry_price) <= 0)
    THEN PFail("ValueError")
    ELSE LET pnl_per_share == FSub(S, Val(leg.entry_price))
         IN  IF leg.side = LongStr
             THEN POk(FMul(pnl_per_share, Val(leg.shares)))
             ELSE IF leg.side = ShortStr
             THEN POk(FMul(-pnl_per_share, Val(leg.shares)))
             ELSE PFail("ValueError")

leg_pnl_at_expiry(leg, S) ==
    IF leg.instrument = "option" THEN option_leg_pnl(leg, S)
    ELSE IF leg.instrument = "stock" THEN stock_leg_pnl(leg, S)
    ELSE PFail("ValueError")

\* sum(leg_pnl_at_expiry(leg, S) for leg in legs): the legs from the k-th on
\* are added to total in order, and the first failure ends the sum
RECURSIVE SumLegs(_, _, _, _)
SumLegs(legs, S, k, total) ==
    IF k > Len(legs) THEN POk(total)
    ELSE LET r == leg_pnl_at_expiry(legs[k], S)
         IN  IF r.err # "none" THEN r
             ELSE SumLegs(legs, S, k + 1, FAdd(total, r.value))

\* the last leg is left out of the sum
PortfolioSumDropsLast(legs, S) == SumLegs(SubSeq(legs, 1, Len(legs) - 1), S, 1, 0)

PortfolioSum(legs, S) == SumLegs(legs, S, 1, 0)

portfolio_pnl_at_expiry(legs, S) ==
    IF legs = << >> THEN PFail("ValueError")
    ELSE PortfolioSum(legs, S)

\* every leg is booked as a debit
LegCashflowAllDebits(leg) ==
    IF leg.instrument = "option"
    THEN IF IsNone(leg.premium) THEN PFail("ValueError")
         ELSE IF leg.qty <= 0 \/ leg.contract_size <= 0 THEN PFail("ValueError")
         ELSE POk(-FMul(FMul(Val(leg.premium), leg.qty), leg.contract_size))
    ELSE IF leg.instrument = "stock"
    THEN IF IsNone(leg.shares) \/ IsNone(leg.entry_price) THEN PFail("ValueError")
         ELSE POk(-FMul(Val(leg.entry_price), Val(leg.shares)))
    ELSE PFail("ValueError")

\* the signed cash of one leg in net_cashflow_at_entry
LegCashflow(leg) ==
    IF leg.instrument = "option"
    THEN IF IsNone(leg.premium) THEN PFail("ValueError")
         ELSE IF leg.qty <= 0 \/ leg.contract_size <= 0 THEN PFail("ValueError")
         ELSE LET cash == FMul(FMul(Val(leg.premium), leg.qty), leg.contract_size)
              IN  POk(IF leg.side = ShortStr THEN cash ELSE -cash)
    ELSE IF leg.instrument = "stock"
    THEN IF IsNone(leg.shares) \/ IsNone(leg.entry_price) THEN PFail("ValueError")
         ELSE LET cash == FMul(Val(leg.entry_price), Val(leg.shares))
              IN  POk(IF leg.side = ShortStr THEN cash ELSE -cash)
    ELSE PFail("ValueError")

\* the for loop of net_cashflow_at_entry from the k-th leg on
RECURSIVE CashflowLoop(_, _, _)
CashflowLoop(legs, k, total) ==
    IF k > Len(legs) THEN POk(total)
    ELSE LET c == LegCashflow(legs[k])
         IN  IF c.err # "none" THEN c
             ELSE CashflowLoop(legs, k + 1, FAdd(total, c.value))

net_cashflow_at_entry(legs) ==
    IF legs = << >> THEN PFail("ValueError")
    ELSE CashflowLoop(legs, 1, 0)

\* single_option_pnl (payoff.py)
single_option_pnl(option_type, side, S, K, premium, qty, contract_size) ==
    IF premium < 0 THEN PFail("ValueError")
    ELSE IF qty <= 0 THEN PFail("ValueError")
    ELSE IF contract_size <= 0 THEN PFail("ValueError")
    ELSE LET payoff == payoff_at_expiry(option_type, S, K)
         IN  IF payoff.err # "none" THEN payoff
             ELSE LET pnl_per_share ==
                          IF NormType(side) = LongStr
                          THEN FSub(payoff.value, premium)
                          ELSE FSub(premium, payoff.value)
                  IN  POk(FMul(FMul(pnl_per_share, qty), contract_size))

\* portfolio_pnl_at_expiry(legs, S) is called
PortfolioPnl ==
    /\ pf_op = "pnl"
    /\ pf_out.err = "pending"
    /\ pf_out' = portfolio_pnl_at_expiry(pf_legs, pf_S)
    /\ UNCHANGED << svVars, bsVars, ivVars, cvVars, rcVars, pf_op, pf_legs, pf_S >>

\* leg_pnl_at_expiry(leg, S) is called on one leg
LegPnl ==
    /\ pf_op = "leg"
    /\ pf_out.err = "pending"
    /\ pf_out' = leg_pnl_at_expiry(pf_legs[1], pf_S)
    /\ UNCHANGED << svVars, bsVars, ivVars, cvVars, rcVars, pf_op, pf_legs, pf_S >>

\* net_cashflow_at_entry(legs) is called
NetCashflow ==
    /\ pf_op = "cashflow"
    /\ pf_out.err = "pending"
    /\ pf_out' = net_cashflow_at_entry(pf_legs)
    /\ UNCHANGED << svVars, bsVars, ivVars, cvVars, rcVars, pf_op, pf_legs, pf_S >>

\* single_option_pnl is called on the fields of one option leg
SingleOptionPnl ==
    /\ pf_op = "single"
    /\ pf_out.err = "pending"
    /\ LET leg == pf_legs[1]
       IN  pf_out' = single_option_pnl(Val(leg.option_type), leg.side, pf_S,
                                       Val(leg.strike), Val(leg.premium),
                                       leg.qty, leg.contract_size)
    /\ UNCHANGED << svVars, bsVars, ivVars, cvVars, rcVars, pf_op, pf_legs, pf_S >>

(***************************************************************************)
(* portfolio_curve and breakevens_from_curve (portfolio.py).  A curve is a *)
(* list of points [underlying, pnl].  The tolerance 1e-6 of the            *)
(* deduplication is counted in the unit of the curve's numbers and comes   *)
(* with the curve: 0 where the unit is above 1e-6, so that no two distinct *)
(* numbers are within 1e-6 of each other.                                  *)
(***************************************************************************)
PLPoint(underlying, pnl) == [underlying |-> underlying, pnl |-> pnl]

CurveFail(e) == [err |-> e, points |-> << >>]
CurveOk(points) == [err |-> "none", points |-> points]

\* the guards of portfolio_curve
CurveArgsInvalid(s_min, s_max, steps) ==
    steps < 2 \/ s_min <= 0 \/ s_max <= 0 \/ s_max <= s_min

\* step = (s_max - s_min) / (steps - 1)
CurveStep(s_min, s_max, steps) == FDiv(FSub(s_max, s_min), steps - 1)

\* s = s_min + i * step
CurveUnderlying(s_min, step, i) == FAdd(s_min, FMul(i, step))

\* the for loop of portfolio_curve from i on; a leg list that
\* portfolio_pnl_at_expiry rejects ends the call
RECURSIVE CurveLoop(_, _, _, _, _, _)
CurveLoop(legs, s_min, step, steps, i, out) ==
    IF i >= steps THEN CurveOk(out)
    ELSE LET s == CurveUnderlying(s_min, step, i)
             pnl == portfolio_pnl_at_expiry(legs, s)
         IN  IF pnl.err # "none" THEN CurveFail(pnl.err)
             ELSE CurveLoop(legs, s_min, step, steps, i + 1,
                            Append(out, PLPoint(s, pnl.value)))

portfolio_curve(legs, s_min, s_max, steps) ==
    IF CurveArgsInvalid(s_min, s_max, steps) THEN CurveFail("ValueError")
    ELSE CurveLoop(legs, s_min, CurveStep(s_min, s_max, steps), steps, 0, << >>)

\* the left end of the pair in place of the root
RootAtLeftEnd(x0, ya, x1, yb) == x0

\* x = x0 + (-ya) * (x1 - x0) / (yb - ya)
InterpolatedRoot(x0, ya, x1, yb) ==
    FAdd(x0, FDiv(FMul(-ya, FSub(x1, x0)), FSub(yb, ya)))

\* zip(curve, curve[1:]): the pairs (curve[k], curve[k+1])
Pairs(curve) == 1..(Len(curve) - 1)

\* what the pair starting at the k-th point adds to bes
PairBreakevens(curve, k) ==
    LET ya == curve[k].pnl
        yb == curve[k + 1].pnl
    IN  IF ya = 0 THEN << curve[k].underlying >>
        ELSE IF FMul(ya, yb) < 0
        THEN << InterpolatedRoot(curve[k].underlying, ya,
                                 curve[k + 1].underlying, yb) >>
        ELSE << >>

\* the first loop of breakevens_from_curve from the k-th pair on
RECURSIVE ScanPairs(_, _, _)
ScanPairs(curve, k, bes) ==
    IF k \notin Pairs(curve) THEN bes
    ELSE ScanPairs(curve, k + 1, bes \o PairBreakevens(curve, k))

\* x put into the ascending list xs, after the values equal to it
RECURSIVE InsertSorted(_, _)
InsertSorted(xs, x) ==
    IF xs = << >> THEN << x >>
    ELSE IF xs[Len(xs)] <= x THEN Append(xs, x)
    ELSE Append(InsertSorted(SubSeq(xs, 1, Len(xs) - 1), x), xs[Len(xs)])

\* sorted(bes)
RECURSIVE Sorted(_)
Sorted(bes) ==
    IF bes = << >> THEN << >>
    ELSE InsertSorted(Sorted(SubSeq(bes, 1, Len(bes) - 1)), bes[Len(bes)])

\* every value is kept
KeepsAll(out, x, tol) == TRUE

\* not out or abs(x - out[-1]) > 1e-6
Keeps(out, x, tol) == out = << >> \/ Abs(FSub(x, out[Len(out)])) > tol

\* the second loop of breakevens_from_curve from the k-th value on
RECURSIVE Dedup(_, _, _, _)
Dedup(xs, k, out, tol) ==
    IF k > Len(xs) THEN out
    ELSE Dedup(xs, k + 1, IF Keeps(out, xs[k], tol) THEN Append(out, xs[k]) ELSE out,
               tol)

breakevens_from_curve(curve, tol) ==
    IF Len(curve) < 2 THEN << >>
    ELSE Dedup(Sorted(ScanPairs(curve, 1, << >>)), 1, << >>, tol)

BesPending == [err |-> "pending", bes |-> << >>]

\* portfolio_curve(legs, s_min, s_max, steps) is called
PortfolioCurve ==
    /\ cv_in.called
    /\ cv_curve.err = "pending"
    /\ cv_curve' = portfolio_curve(cv_in.legs, cv_in.s_min, cv_in.s_max,
                                   cv_in.steps)
    /\ UNCHANGED << svVars, bsVars, ivVars, pfVars, rcVars, cv_in, cv_bes >>

\* breakevens_from_curve(curve) is called
BreakevensFromCurve ==
    /\ cv_curve.err = "none"
    /\ cv_bes.err = "pending"
    /\ cv_bes' = [err |-> "none",
                  bes |-> breakevens_from_curve(cv_curve.points, cv_in.tol)]
    /\ UNCHANGED << svVars, bsVars, ivVars, pfVars, rcVars, cv_in, cv_curve >>

(***************************************************************************)
(* make_chain (chain_sim.py)                                               *)
(*                                                                         *)
(* spot and the quotes of the chain are counted in cents (1/Cent of a      *)
(* dollar), strikes in whole dollars as the code has them, volatilities,   *)
(* moneyness and unrounded prices in 1/QS.  The draws of the random module *)
(* are an argument rnd: u is random.random() of line 19 in 1/SC, oi and    *)
(* vol select the pattern of the randint draws of lines 44-45, seed the    *)
(* stream of normal deviates, and tie the set of result fields whose       *)
(* round() goes up when the exact value lies halfway between two decimals  *)
(* (the binary representation of the float decides that, either way).      *)
(***************************************************************************)
Cent == 100
QC == QS \div Cent

\* floor(n * 10^digits / d) for n >= 0 and 0 < d < 2^27, by long division
RECURSIVE LongDiv(_, _, _)
LongDiv(n, d, digits) ==
    IF digits = 0 THEN << n \div d, n % d >>
    ELSE LET h == LongDiv(n, d, digits - 1)
         IN  << 10 * h[1] + (10 * h[2]) \div d, (10 * h[2]) % d >>

\* math.exp(x) for x <= 2: exp(x/8)^8, and 0 below exp(-10)
MathExpWide(x) ==
    IF x <= -10 * QS THEN 0
    ELSE LET e8 == MathExp(x \div 8)
             e4 == (e8 * e8) \div QS
             e2 == (e4 * e4) \div QS
         IN  (e2 * e2) \div QS

\* round(n / d) of a float holding exactly n / d: ties go to the even integer
RoundHalfEven(n, d) ==
    LET q == n \div d
        r == n - q * d
    IN  IF 2 * r > d \/ (2 * r = d /\ q % 2 = 1) THEN q + 1 ELSE q

\* round(x, k) of a float near n / d decimal units: up decides a decimal tie
RoundTie(n, d, up) ==
    LET q == n \div d
        r == n - q * d
    IN  IF 2 * r > d \/ (2 * r = d /\ up) THEN q + 1 ELSE q

Up(rnd, field) == field \in rnd.tie

\* step = 1 if spot < 100 else 5
ChainStep(spot) == IF spot < 100 * Cent THEN 1 ELSE 5

\* center = int(round(spot / step) * step), with floor in place of round
ChainCenterFloor(spot) == (spot \div (Cent * ChainStep(spot))) * ChainStep(spot)

\* center = int(round(spot / step) * step)
ChainCenter(spot) == RoundHalfEven(spot, Cent * ChainStep(spot)) * ChainStep(spot)

\* range(-12, 13)
ChainLow == -12
ChainHigh == 12
ChainSize == ChainHigh - ChainLow + 1

\* strikes = [center + i * step for i in range(-12, 13)]
ChainStrikes(spot) ==
    [n \in 1..ChainSize |-> ChainCenter(spot) + (ChainLow + n - 1) * ChainStep(spot)]

\* base_iv = 0.18 + 0.04 * random.random()
BaseIv(rnd) == 1800 + (400 * rnd.u) \div SC

\* abs(moneyness), moneyness = (k - spot) / max(1.0, spot)
AbsMoneyness(k, spot) == (Abs(k * Cent - spot) * QS) \div Max(Cent, spot)

\* iv = max(0.05, base_iv + skew)
ChainIv(k, spot, rnd) ==
    Max(500, BaseIv(rnd) + (12 * AbsMoneyness(k, spot)) \div 100
               + (IF k * Cent < spot THEN 300 ELSE 0))

\* math.sqrt(max(1, dte) / 365.0), in 1/SC
SqrtYears(dte) ==
    LET d == Max(1, dte)
    IN  IF d <= 2000 THEN ISqrt((d * 1000000) \div 365)
        ELSE 100 * ISqrt((d * 100) \div 365)

\* tv = max(0.05, (iv * math.sqrt(max(1, dte) / 365.0)) * spot * 0.06)
TimeValue(ivol, dte, spot) ==
    Max(500, MulDiv(MulDiv(ivol, SqrtYears(dte), SC), 6 * spot, QS))

\* mid_call and mid_put: intrinsic + tv * math.exp(-abs(moneyness) * 6)
ChainMid(intrinsic, k, spot, dte, rnd) ==
    intrinsic * QC
      + MulDiv(TimeValue(ChainIv(k, spot, rnd), dte, spot),
               MathExpWide(-6 * AbsMoneyness(k, spot)), QS)

\* spread_factor = 0.04 + 0.10 * min(1.0, abs(moneyness) * 8)
SpreadFactor(k, spot) == 400 + (1000 * Min(QS, 8 * AbsMoneyness(k, spot))) \div QS

\* lines 35-41 and 53-64: the spread, bid and ask of one mid, and the quote
\* reported for it
ChainQuote(mid, factor, rnd) ==
    LET spread == Max(QC, MulDiv(mid, factor, QS))
        bid == Max(QC, (2 * mid - spread) \div 2)
        ask == bid + spread
        avg == (bid + ask) \div 2
    IN  [bid |-> RoundTie(bid, QC, Up(rnd, "bid")),
         ask |-> RoundTie(ask, QC, Up(rnd, "ask")),
         mid |-> RoundTie(avg, QC, Up(rnd, "mid")),
         spread_pct |-> RoundTie(LongDiv(ask - bid, Max(QC, avg), 5)[1], 10,
                                 Up(rnd, "spread_pct"))]

\* random.randint(-amp, amp) for the n-th strike
Jitter(pattern, n, amp) ==
    CASE pattern = 0 -> 0
      [] pattern = 1 -> -amp
      [] pattern = 2 -> amp
      [] OTHER -> IF n % 2 = 0 THEN amp ELSE -amp

\* oi = int(max(10, 2000 * math.exp(-abs(moneyness) * 5) + randint(-50, 50)))
ChainOi(k, spot, n, rnd) ==
    Max(10, (2000 * MathExpWide(-5 * AbsMoneyness(k, spot))) \div QS
              + Jitter(rnd.oi, n, 50))

\* vol = int(max(0, 400 * math.exp(-abs(moneyness) * 5) + randint(-30, 30)))
ChainVol(k, spot, n, rnd) ==
    Max(0, (400 * MathExpWide(-5 * AbsMoneyness(k, spot))) \div QS
             + Jitter(rnd.vol, n, 30))

\* the item appended for the n-th strike k; iv is held in the unit round(iv, 4)
\* keeps
ChainItem(k, n, spot, dte, rnd) ==
    [strike |-> k,
     dte |-> dte,
     iv |-> ChainIv(k, spot, rnd),
     oi |-> ChainOi(k, spot, n, rnd),
     vol |-> ChainVol(k, spot, n, rnd),
     call |-> ChainQuote(ChainMid(Max(0, spot - k * Cent), k, spot, dte, rnd),
                         SpreadFactor(k, spot), rnd),
     put |-> ChainQuote(ChainMid(Max(0, k * Cent - spot), k, spot, dte, rnd),
                        SpreadFactor(k, spot), rnd)]

ChainNone == [spot |-> 0, dte |-> 0, step |-> 0, items |-> << >>]

make_chain(spot, dte, rnd) ==
    [spot |-> spot,
     dte |-> dte,
     step |-> ChainStep(spot),
     items |-> [i \in 1..ChainSize |->
                  ChainItem(ChainStrikes(spot)[i], i, spot, dte, rnd)]]

(***************************************************************************)
(* The recommender (recommender.py)                                        *)
(*                                                                         *)
(* Per-share amounts (simulated prices, premiums, credits, payoffs) are    *)
(* counted in 1/PS of a dollar, dollar amounts before round(., 2) in mills *)
(* (a per-share amount * 100 * contracts is amount * contracts mills),     *)
(* rounded dollar amounts in cents, prob_profit in 1/QS, reward_risk and   *)
(* var_alpha in 1/SC.  A candidate is the dict of the code: a record whose *)
(* domain is the set of keys present.  max_profit = "unlimited" is the     *)
(* empty sequence, a number v is << v >>.                                  *)
(***************************************************************************)
PS == 100000
PC == PS \div Cent

\* -1e18, below every amount the model forms; 0.65 * -1e18 absorbs the
\* probability term of the score
NegHuge == -2000000000

\* n of simulate_terminal_prices, 9000 in the code
SimDraws == 3

\* rr = 999999.0
CallRewardRisk == 999999 * SC

\* the deviates _normals returns, in 1/QS: a stream selected by the seed
ZTable == << -2 * QS, 0, QS, -QS, 2 * QS, -QS \div 2, QS \div 4 >>

\* _normals(n), for the slot-th simulation of a call
_normals(rnd, slot, n) ==
    [d \in 1..n |-> ZTable[((rnd.seed + 3 * slot + 2 * d) % Len(ZTable)) + 1]]

SignedMulDiv(a, b, c) == Sign(a) * Sign(b) * MulDiv(Abs(a), Abs(b), c)

\* simulate_terminal_prices(S0, iv, dte, n) with zs = _normals(n); S0 in
\* cents, the prices in 1/PS; max(1e-6, iv) is below the unit of iv
simulate_terminal_prices(S0, ivol, dte, zs) ==
    LET T == MulDiv(Max(1, dte), QS, 365)
        vol == Max(0, ivol)
        drift == -MulDiv(T, (vol * vol) \div QS, 2 * QS)
        scale == MulDiv(vol, SqrtYears(dte), SC)
    IN  [d \in 1..Len(zs) |->
           MulDiv(S0 * PC, MathExpWide(drift + SignedMulDiv(scale, zs[d], QS)), QS)]

RECURSIVE SumSeq(_)
SumSeq(xs) ==
    IF xs = << >> THEN 0 ELSE SumSeq(SubSeq(xs, 1, Len(xs) - 1)) + xs[Len(xs)]

\* _pop: wins / max(1, len(per_share)), as the pair of the quotient
_pop(per_share) ==
    << Cardinality({ d \in 1..Len(per_share) : per_share[d] > 0 }),
       Max(1, Len(per_share)) >>

\* _var_worst_loss_dollars without the max(0.0, ...) of line 42
VarWorstLossUnclamped(per_share, alpha, contracts) ==
    IF per_share = << >> THEN 0
    ELSE LET a == Min(Max(alpha, 500), 999)
             sorted_pnl == Sorted(per_share)
             idx == ((SC - a) * (Len(sorted_pnl) - 1)) \div SC
         IN  (-sorted_pnl[Min(Max(idx, 0), Len(sorted_pnl) - 1) + 1]) * contracts

\* _var_worst_loss_dollars, in mills
_var_worst_loss_dollars(per_share, alpha, contracts) ==
    IF per_share = << >> THEN 0
    ELSE LET a == Min(Max(alpha, 500), 999)
             sorted_pnl == Sorted(per_share)
             idx == ((SC - a) * (Len(sorted_pnl) - 1)) \div SC
             pnl_share == sorted_pnl[Min(Max(idx, 0), Len(sorted_pnl) - 1) + 1]
         IN  Max(0, -pnl_share) * contracts

\* c.get(key, default)
Get(c, key, default) == IF key \in DOMAIN c THEN c[key] ELSE default

\* score_candidate, in 1/QS of a dollar
score_candidate(c) ==
    LET ev == Get(c, "expected_profit", NegHuge)
        pop == Get(c, "prob_profit", 0)
    IN  IF ev = NegHuge THEN NegHuge ELSE 65 * ev + 35 * pop

\* round(ev, 2) with ev = sum(per_share) / len(per_share) * 100.0 * contracts
ExpectedProfit(per_share, contracts, rnd) ==
    RoundTie(SumSeq(per_share) * contracts, 10 * Len(per_share),
             Up(rnd, "expected_profit"))

\* round(mills / 1000, 2) for the field of that name
Round2(mills, rnd, field) == RoundTie(mills, 10, Up(rnd, field))

\* ev_single_call: K in dollars, premium in 1/PS
ev_single_call(S0, K, premium, ivol, dte, contracts, var_alpha, zs, rnd) ==
    LET sims == simulate_terminal_prices(S0, ivol, dte, zs)
        per_share == [d \in 1..Len(sims) |-> Max(sims[d] - K * PS, 0) - premium]
        pop == _pop(per_share)
    IN  [strategy |-> "single_call",
         legs |-> [strike |-> K, premium |-> premium],
         expected_profit |-> ExpectedProfit(per_share, contracts, rnd),
         prob_profit |-> RoundTie(pop[1] * QS, pop[2], Up(rnd, "prob_profit")),
         entry_cost |-> Round2(premium * contracts, rnd, "entry_cost"),
         cost_type |-> "debit",
         max_loss |-> Round2(premium * contracts, rnd, "max_loss"),
         max_profit |-> << >>,
         breakeven |-> RoundTie(K * PS + premium, PC, Up(rnd, "breakeven")),
         var_worst_loss |->
             Round2(_var_worst_loss_dollars(per_share, var_alpha, contracts),
                    rnd, "var_worst_loss"),
         reward_risk |-> CallRewardRisk,
         _per_share |-> per_share]

\* the guard of line 75 without its last disjunct
DegenerateSpreadNoCap(width, credit) == width <= 0 \/ credit <= 0

\* if width <= 0.0 or credit <= 0.0 or credit >= width
DegenerateSpread(width, credit) == width <= 0 \/ credit <= 0 \/ credit >= width

\* max_loss = (width - credit) * 100.0 * contracts with the credit left out
SpreadMaxLossFullWidth(width, credit, contracts) == width * contracts

\* max_loss = (width - credit) * 100.0 * contracts, in mills
SpreadMaxLoss(width, credit, contracts) == (width - credit) * contracts

\* ev_bull_put_credit: Kshort and Klong in dollars, credit in 1/PS
ev_bull_put_credit(S0, Kshort, Klong, credit, ivol, dte, contracts, var_alpha, zs, rnd) ==
    LET width == Max(0, Kshort - Klong) * PS
    IN  IF DegenerateSpread(width, credit)
        THEN [expected_profit |-> NegHuge, prob_profit |-> 0]
        ELSE LET sims == simulate_terminal_prices(S0, ivol, dte, zs)
                 per_share == [d \in 1..Len(sims) |->
                                 credit - Max(Kshort * PS - sims[d], 0)
                                        + Max(Klong * PS - sims[d], 0)]
                 pop == _pop(per_share)
                 max_profit == credit * contracts
                 max_loss == SpreadMaxLoss(width, credit, contracts)
                 rr == IF max_loss > 0
                       THEN RoundTie(LongDiv(max_profit, max_loss, 4)[1], 10,
                                     Up(rnd, "reward_risk"))
                       ELSE 0
             IN  [strategy |-> "bull_put_credit_spread",
                  legs |-> [short_put |-> Kshort, long_put |-> Klong,
                            credit |-> credit],
                  expected_profit |-> ExpectedProfit(per_share, contracts, rnd),
                  prob_profit |-> RoundTie(pop[1] * QS, pop[2], Up(rnd, "prob_profit")),
                  entry_cost |-> Round2(credit * contracts, rnd, "entry_cost"),
                  cost_type |-> "credit",
                  max_loss |-> Round2(max_loss, rnd, "max_loss"),
                  max_profit |-> << Round2(max_profit, rnd, "max_profit") >>,
                  breakeven |-> RoundTie(Kshort * PS - credit, PC, Up(rnd, "breakeven")),
                  var_worst_loss |->
                      Round2(_var_worst_loss_dollars(per_share, var_alpha, contracts),
                             rnd, "var_worst_loss"),
                  reward_risk |-> rr,
                  _per_share |-> per_share]

\* passes_liquidity; the items of make_chain have every key, so the except
\* branch is not taken
passes_liquidity(x, min_oi, min_vol, max_spread_pct) ==
    /\ x.oi >= min_oi
    /\ x.vol >= min_vol
    /\ Max(x.call.spread_pct, x.put.spread_pct) <= max_spread_pct

Liquid(x, a) == passes_liquidity(x, a.min_oi, a.min_vol, a.max_spread_pct)

\* c["meta"] = {...}
Meta(x) ==
    [oi |-> x.oi, vol |-> x.vol,
     max_spread_pct |-> Max(x.call.spread_pct, x.put.spread_pct)]

\* lines 149-153: the candidate of the n-th item
SingleCallAt(items, a, n) ==
    LET x == items[n]
    IN  ev_single_call(a.spot, x.strike, x.call.mid * PC, x.iv, a.dte,
                       a.contracts, a.var_alpha, _normals(a.rnd, n, SimDraws),
                       a.rnd)
          @@ [meta |-> Meta(x)]

\* lines 146-154: one candidate for every item that passes the filter
SingleCalls(items, a) ==
    LET taken == SelectSeq([n \in 1..Len(items) |-> n],
                           LAMBDA n : Liquid(items[n], a))
    IN  [j \in 1..Len(taken) |-> SingleCallAt(items, a, taken[j])]

\* the items whose strike is K: strike_to[K]
StrikeTo(items, K) == { m \in 1..Len(items) : items[m].strike = K }

\* the pair is taken without the filter on the long strike's item
BullPutTakenShortOnly(items, step, a, n, w) ==
    LET Klong == items[n].strike - w * step
    IN  /\ ~(items[n].strike * Cent > a.spot)
        /\ Liquid(items[n], a)
        /\ StrikeTo(items, Klong) # {}

\* lines 161-173: the short strike of the n-th item and the long strike
\* w steps below it are taken
BullPutTaken(items, step, a, n, w) ==
    LET Klong == items[n].strike - w * step
    IN  /\ ~(items[n].strike * Cent > a.spot)
        /\ Liquid(items[n], a)
        /\ StrikeTo(items, Klong) # {}
        /\ Liquid(items[CHOOSE m \in StrikeTo(items, Klong) : TRUE], a)

\* lines 175-178: the candidate of that pair
BullPutAt(items, step, a, n, w) ==
    LET s_item == items[n]
        Kshort == s_item.strike
        Klong == Kshort - w * step
        l_item == items[CHOOSE m \in StrikeTo(items, Klong) : TRUE]
        credit == Max(1, s_item.put.mid - l_item.put.mid) * PC
    IN  ev_bull_put_credit(a.spot, Kshort, Klong, credit, s_item.iv, a.dte,
                           a.contracts, a.var_alpha,
                           _normals(a.rnd, Len(items) + 3 * n + w, SimDraws),
                           a.rnd)
          @@ [meta |-> Meta(s_item)]

\* lines 160-179: the pairs in the order of the loops, the strikes ascending
\* (the chain has them so) and w_steps in (1, 2, 3) for each
BullPuts(items, step, a) ==
    LET ShortOf(p) == ((p - 1) \div 3) + 1
        StepsOf(p) == ((p - 1) % 3) + 1
        taken == SelectSeq([p \in 1..(3 * Len(items)) |-> p],
                           LAMBDA p : BullPutTaken(items, step, a, ShortOf(p),
                                                   StepsOf(p)))
    IN  [j \in 1..Len(taken) |->
           BullPutAt(items, step, a, ShortOf(taken[j]), StepsOf(taken[j]))]

\* lines 143-179: the candidates in the order they are appended
Candidates(chain, a) ==
    (IF a.allow_single_call THEN SingleCalls(chain.items, a) ELSE << >>)
      \o (IF a.allow_bull_put
          THEN BullPuts(chain.items, chain.step, a) ELSE << >>)

\* lines 183-204: c is appended to constrained
Constrained(c, a) ==
    LET ev == Get(c, "expected_profit", NegHuge)
        pop == Get(c, "prob_profit", 0)
        rr == Get(c, "reward_risk", 0)
        dd == Get(c, "var_worst_loss", 0)
    IN  /\ ~("max_loss" \in DOMAIN c /\ a.max_loss_dollars # << >>
               /\ c.max_loss > a.max_loss_dollars[1])
        /\ ~(a.max_drawdown_dollars # << >> /\ dd > a.max_drawdown_dollars[1])
        /\ ~(ev < a.min_expected_profit)
        /\ ~(pop < a.min_prob_profit)
        /\ ~(rr < a.min_reward_risk)

ConstrainedOf(candidates, a) == SelectSeq(candidates, LAMBDA c : Constrained(c, a))

\* use = candidates, whatever the filter kept
UseCandidates(constrained, candidates) == candidates

\* use = constrained if constrained else candidates
Use(constrained, candidates) ==
    IF Len(constrained) > 0 THEN constrained ELSE candidates

\* a guard that never returns the diagnostic payload
NotUseNever(use) == FALSE

\* if not use
NotUse(use) == Len(use) = 0

\* max(use, key=score_candidate) keeping the last of the maximal ones
BestLast(use) ==
    use[CHOOSE i \in 1..Len(use) :
          /\ \A j \in 1..Len(use) : score_candidate(use[j]) <= score_candidate(use[i])
          /\ \A j \in (i + 1)..Len(use) : score_candidate(use[j]) < score_candidate(use[i])]

\* max(use, key=score_candidate): the first of the maximal ones
Best(use) ==
    use[CHOOSE i \in 1..Len(use) :
          /\ \A j \in 1..Len(use) : score_candidate(use[j]) <= score_candidate(use[i])
          /\ \A j \in 1..(i - 1) : score_candidate(use[j]) < score_candidate(use[i])]

\* del best["_per_share"]
Without(c, key) == [k \in DOMAIN c \ { key } |-> c[k]]

\* best["score"] = round(score_candidate(best), 2)
Scored(best, rnd) ==
    LET s == score_candidate(best)
    IN  best @@ [score |-> IF s = NegHuge THEN NegHuge
                           ELSE RoundTie(s, QC, Up(rnd, "score"))]

RcPending == [err |-> "pending", ret |-> << >>]
RcIdle == [err |-> "idle", ret |-> << >>]
RcReturn(d) == [err |-> "none", ret |-> d]
RcRaise(e) == [err |-> e, ret |-> << >>]

ConstraintsEcho(a) ==
    [max_loss_dollars |-> a.max_loss_dollars,
     max_drawdown_dollars |-> a.max_drawdown_dollars,
     var_alpha |-> a.var_alpha,
     min_expected_profit |-> a.min_expected_profit,
     min_prob_profit |-> a.min_prob_profit,
     min_reward_risk |-> a.min_reward_risk,
     min_oi |-> a.min_oi,
     min_vol |-> a.min_vol,
     max_spread_pct |-> a.max_spread_pct,
     allow_single_call |-> a.allow_single_call,
     allow_bull_put |-> a.allow_bull_put]

\* lines 206-244; max() of an empty list raises ValueError
PickReturn(use, a) ==
    IF NotUse(use)
    THEN RcReturn([symbol |-> a.symbol, spot |-> a.spot, dte |-> a.dte,
                   contracts |-> a.contracts,
                   error |-> "No candidates available under constraints.",
                   note |-> "Loosen constraints"])
    ELSE IF Len(use) = 0 THEN RcRaise("ValueError")
    ELSE RcReturn([symbol |-> a.symbol, spot |-> a.spot, dte |-> a.dte,
                   contracts |-> a.contracts,
                   constraints |-> ConstraintsEcho(a),
                   recommendation |->
                       Without(Scored(Best(use), a.rnd), "_per_share"),
                   note |-> "Max drawdown implemented as VaR-style worst-tail loss"])

(***************************************************************************)
(* A call of make_chain, of ev_bull_put_credit or of pick_best_strategy;   *)
(* rc_pc is the position of the call: pick_best_strategy obtains its chain *)
(* (line 139), appends the candidates (143-179), filters them (181-204)    *)
(* and returns (206-244).                                                  *)
(***************************************************************************)
MakeChain ==
    /\ rc_pc = "chain"
    /\ rc_chain' = make_chain(rc_in.spot, rc_in.dte, rc_in.rnd)
    /\ rc_pc' = IF rc_in.op = "chain" THEN "done" ELSE "generate"
    /\ rc_out' = IF rc_in.op = "chain" THEN RcReturn(<< >>) ELSE rc_out
    /\ UNCHANGED << svVars, bsVars, ivVars, pfVars, cvVars, rc_in, rc_cands, rc_cons >>

PickGenerate ==
    /\ rc_pc = "generate"
    /\ rc_cands' = Candidates(rc_chain, rc_in)
    /\ rc_pc' = "constrain"
    /\ UNCHANGED << svVars, bsVars, ivVars, pfVars, cvVars, rc_in, rc_chain, rc_cons, rc_out >>

PickConstrain ==
    /\ rc_pc = "constrain"
    /\ rc_cons' = ConstrainedOf(rc_cands, rc_in)
    /\ rc_pc' = "return"
    /\ UNCHANGED << svVars, bsVars, ivVars, pfVars, cvVars, rc_in, rc_chain, rc_cands, rc_out >>

PickBest ==
    /\ rc_pc = "return"
    /\ rc_out' = PickReturn(Use(rc_cons, rc_cands), rc_in)
    /\ rc_pc' = "done"
    /\ UNCHANGED << svVars, bsVars, ivVars, pfVars, cvVars, rc_in, rc_chain, rc_cands, rc_cons >>

\* a call of ev_single_call
EvSingleCall ==
    /\ rc_pc = "call"
    /\ rc_out' = RcReturn(ev_single_call(rc_in.spot, rc_in.K, rc_in.premium,
                              rc_in.iv, rc_in.dte, rc_in.contracts,
                              rc_in.var_alpha,
                              _normals(rc_in.rnd, 1, SimDraws), rc_in.rnd))
    /\ rc_pc' = "done"
    /\ UNCHANGED << svVars, bsVars, ivVars, pfVars, cvVars, rc_in, rc_chain, rc_cands, rc_cons >>

EvBullPutCredit ==
    /\ rc_pc = "spread"
    /\ rc_out' = RcReturn(ev_bull_put_credit(rc_in.spot, rc_in.Kshort, rc_in.Klong,
                              rc_in.credit, rc_in.iv, rc_in.dte, rc_in.contracts,
                              rc_in.var_alpha,
                              _normals(rc_in.rnd, 1, SimDraws), rc_in.rnd))
    /\ rc_pc' = "done"
    /\ UNCHANGED << svVars, bsVars, ivVars, pfVars, cvVars, rc_in, rc_chain, rc_cands, rc_cons >>

(***************************************************************************)
(* A call of black_scholes                                                 *)
(***************************************************************************)
BlackScholes ==
    /\ bs_out.err = "pending"
    /\ bs_out' = black_scholes(bs_in.S, bs_in.K, bs_in.T, bs_in.r, bs_in.q,
                               bs_in.sigma)
    /\ UNCHANGED << svVars, bs_in, ivVars, pfVars, cvVars, rcVars >>

(***************************************************************************)
(* The saved_items table (storage/db.py) and its routes (api/saved.py,     *)
(* api/templates.py).  A row is its id, its kind and the length of its     *)
(* payload_json; a database is the committed rows in id order and seq, the *)
(* highest id AUTOINCREMENT has handed out.  A route is one call: the      *)
(* table after it and its response.  A response model that rejects a value *)
(* (ValidationError) ends the request with status 500.                     *)
(***************************************************************************)
Kind == { "strategy", "portfolio", "note" }

MaxRaw == 200000

Row(id, kind, raw) == [id |-> id, kind |-> kind, raw |-> raw]

Db(rows, seq) == [rows |-> rows, seq |-> seq]

\* INSERT INTO saved_items: the row gets the id seq + 1 (lastrowid)
Insert(conn, kind, raw) ==
    Db(Append(conn.rows, Row(conn.seq + 1, kind, raw)), conn.seq + 1)

\* a close() that commits what conn has changed
CloseCommits(db, conn) == conn

\* get_conn left without conn.commit(): close() drops what conn has changed
get_conn(db, conn) == db

SvResponse(op, args, status, body) ==
    [op |-> op, args |-> args, status |-> status, body |-> body]

SvCall(db, op, args, status, body) ==
    [db |-> db, out |-> SvResponse(op, args, status, body)]

\* SavedItemSummary and SavedItemDetail accept the row
Validates(row) == row.kind \in Kind

RECURSIVE ImportLoop(_, _, _, _, _)
ImportLoop(db, conn, items, n, new_ids) ==
    IF n > Len(items)
    THEN SvCall(conn, "import_all", items, 200,
                [imported |-> Len(new_ids), new_ids |-> new_ids])
    ELSE IF items[n].raw > MaxRaw
         THEN SvCall(get_conn(db, conn), "import_all", items, 413, << >>)
         ELSE ImportLoop(db, Insert(conn, items[n].kind, items[n].raw), items,
                         n + 1, Append(new_ids, conn.seq + 1))

import_all(db, items) == ImportLoop(db, db, items, 1, << >>)

create(db, kind, raw) ==
    IF raw > MaxRaw
    THEN SvCall(db, "create", << kind, raw >>, 413, << >>)
    ELSE SvCall(Insert(db, kind, raw), "create", << kind, raw >>, 200,
                Row(db.seq + 1, kind, raw))

save_template(db, raw) ==
    IF raw > MaxRaw
    THEN SvCall(db, "save_template", << raw >>, 413, << >>)
    ELSE SvCall(Insert(db, "template", raw), "save_template", << raw >>, 200,
                Row(db.seq + 1, "template", raw))

clear_all(db) == SvCall(Db(<< >>, db.seq), "clear_all", << >>, 200, << >>)

delete_item(db, item_id) ==
    IF \A n \in 1..Len(db.rows) : db.rows[n].id # item_id
    THEN SvCall(db, "delete_item", << item_id >>, 404, << >>)
    ELSE SvCall(Db(SelectSeq(db.rows, LAMBDA row : row.id # item_id), db.seq),
                "delete_item", << item_id >>, 200, << item_id >>)

export_all(db) ==
    IF \A n \in 1..Len(db.rows) : Validates(db.rows[n])
    THEN SvCall(db, "export_all", << >>, 200, db.rows)
    ELSE SvCall(db, "export_all", << >>, 500, << >>)

\* ORDER BY id DESC LIMIT limit OFFSET offset
Page(rows, limit, offset) ==
    LET desc == [n \in 1..Len(rows) |-> rows[Len(rows) + 1 - n]]
    IN  SubSeq(desc, offset + 1, Min(offset + limit, Len(rows)))

\* kind is "None" for a call without the filter
list_items(db, limit, offset, kind) ==
    LET args == << limit, offset, kind >>
        rows == Page(IF kind = "None" THEN db.rows
                     ELSE SelectSeq(db.rows, LAMBDA row : row.kind = kind),
                     limit, offset)
    IN  IF limit < 1 \/ limit > 200 \/ offset < 0
        THEN SvCall(db, "list_items", args, 400, << >>)
        ELSE IF \A n \in 1..Len(rows) : Validates(rows[n])
             THEN SvCall(db, "list_items", args, 200,
                         [n \in 1..Len(rows) |->
                            [id |-> rows[n].id, kind |-> rows[n].kind]])
             ELSE SvCall(db, "list_items", args, 500, << >>)

(***************************************************************************)
(* A request to one of the routes                                          *)
(***************************************************************************)
MaxIds == 3

SvRaws == { 2, MaxRaw, MaxRaw + 1 }
CreateKinds == { "strategy", "note" }
ImportItems == [kind : CreateKinds, raw : SvRaws]
ImportLists ==
    { << >> } \cup { << a >> : a \in ImportItems }
              \cup { << a, b >> : a, b \in ImportItems }
ListLimits == { 0, 1, 2, 201 }
ListOffsets == { -1, 0, 1 }
ListKinds == { "None", "note" }

Stored == Db(sv_rows, sv_seq)

Respond(call) ==
    /\ call.db.seq <= MaxIds
    /\ sv_rows' = call.db.rows
    /\ sv_seq' = call.db.seq
    /\ sv_out' = call.out
    /\ UNCHANGED << bsVars, ivVars, pfVars, cvVars, rcVars >>

Create == \E kind \in CreateKinds, raw \in SvRaws : Respond(create(Stored, kind, raw))

SaveTemplate == \E raw \in { 2, MaxRaw + 1 } : Respond(save_template(Stored, raw))

ImportAll == \E items \in ImportLists : Respond(import_all(Stored, items))

ClearAll == Respond(clear_all(Stored))

DeleteItem == \E item_id \in 1..MaxIds : Respond(delete_item(Stored, item_id))

ExportAll == Respond(export_all(Stored))

ListItems ==
    \E limit \in ListLimits, offset \in ListOffsets, kind \in ListKinds :
        Respond(list_items(Stored, limit, offset, kind))

vars == << bsVars, ivVars, pfVars, cvVars, rcVars, svVars >>

(***************************************************************************)
(* The arguments the calls are explored on                                 *)
(***************************************************************************)
MaxIterSmall == 3

SpotValues == { -1000, 0, 40000, 50000 }
StrikeValues == { -1000, 0, 40000, 50000, 60000 }
TimeValues == { -10, 0, 10, 1000 }
RateValues == { -20, 50 }
YieldValues == { 0, 30 }
SigmaValues == { -100, 0, 1, 200, 1000, 5000 }

IVParams ==
    { [S |-> 50000, K |-> k, T |-> t, r |-> rq[1], q |-> rq[2]] :
        k \in { 40000, 50000, 60000 }, t \in { 10, 1000 },
        rq \in { << 50, 0 >>, << -20, 30 >> } }

ValidRawTypes == { << "c", "a", "l", "l" >>, << "p", "u", "t" >>,
                   << " ", "P", "u", "t", "\n" >>, << "C", "A", "L", "L", " " >> }
InvalidRawTypes == { << >>, << " " >>, << "c", "a", "l", "l", "s" >>,
                     << "p", " ", "u", "t" >> }

Sigma0Values == { 20, 100, 200, 1000, 3000, 4900 }
FreePrices == { -1000, 0, 5000, 49000, 70000 }
TolValues == { 1, 10 }

\* vol_low and vol_high of a call: the defaults, and a caller's pair with
\* vol_low above vol_high
IVBrackets == { << VolLow, VolHigh >>, << 1000, 10 >> }
MaxIterValues == { MaxIterSmall, MaxIter }

IVArgs(p, ty, mp, tol, mi) ==
    [S |-> p.S, K |-> p.K, T |-> p.T, r |-> p.r, q |-> p.q,
     market_price |-> mp, option_type |-> ty,
     vol_low |-> VolLow, vol_high |-> VolHigh, tol |-> tol, max_iter |-> mi]

BSNoArgs == [S |-> 0, K |-> 0, T |-> 0, r |-> 0, q |-> 0, sigma |-> 0]
IVNoArgs == IVArgs(BSNoArgs, << >>, 0, 0, 0)

MaxLegs == 3

\* Leg(...) with the defaults of the dataclass
Leg(instrument, option_type, strike, premium, shares, entry_price, side, qty, contract_size) ==
    [instrument |-> instrument, option_type |-> option_type, strike |-> strike,
     premium |-> premium, shares |-> shares, entry_price |-> entry_price,
     side |-> side, qty |-> qty, contract_size |-> contract_size]

OptionLeg(option_type, strike, premium, side, qty, contract_size) ==
    Leg("option", << option_type >>, << strike >>, << premium >>, << >>, << >>,
        side, qty, contract_size)

StockLeg(shares, entry_price, side, qty, contract_size) ==
    Leg("stock", << >>, << >>, << >>, << shares >>, << entry_price >>,
        side, qty, contract_size)

LongCall == OptionLeg(CallStr, 50, 2, LongStr, 1, 100)
LongStock == StockLeg(10, 48, LongStr, 1, 100)

ValidLegs ==
    { LongCall,
      OptionLeg(<< "P", "U", "T", " " >>, 45, 1, ShortStr, 2, 100),
      OptionLeg(CallStr, 60, 3, ShortStr, 1, 1),
      OptionLeg(PutStr, 50, 0, LongStr, 3, 1),
      LongStock,
      StockLeg(1, 52, ShortStr, 0, 0) }

FlatStr == << "f", "l", "a", "t" >>
PaddedLongStr == << " ", "L", "o", "n", "g", " " >>

\* legs that differ from a valid leg in one field
InvalidLegs ==
    { [LongCall EXCEPT !.option_type = << >>],
      [LongCall EXCEPT !.option_type = << << "c", "a", "l", "l", "s" >> >>],
      [LongCall EXCEPT !.strike = << >>],
      [LongCall EXCEPT !.strike = << 0 >>],
      [LongCall EXCEPT !.premium = << >>],
      [LongCall EXCEPT !.premium = << -2 >>],
      [LongCall EXCEPT !.qty = 0],
      [LongCall EXCEPT !.contract_size = 0],
      [LongCall EXCEPT !.side = FlatStr],
      [LongCall EXCEPT !.side = PaddedLongStr],
      [LongCall EXCEPT !.instrument = "future"],
      [LongStock EXCEPT !.shares = << >>],
      [LongStock EXCEPT !.shares = << 0 >>],
      [LongStock EXCEPT !.entry_price = << >>],
      [LongStock EXCEPT !.entry_price = << 0 >>],
      [LongStock EXCEPT !.side = FlatStr] }

AllLegs == ValidLegs \cup InvalidLegs

\* legs is one of the lists explored: a list of at most two legs, or a
\* longer list of valid legs with at most one leg replaced by an invalid one
IsLegList(legs) ==
    \/ \E n \in 0..2 : legs \in [1..n -> AllLegs]
    \/ \E n \in 3..MaxLegs : \E l \in [1..n -> ValidLegs] :
          \/ legs = l
          \/ \E i \in 1..n, bad \in InvalidLegs : legs = [l EXCEPT ![i] = bad]

\* the option legs single_option_pnl can be given the fields of
SingleLegs ==
    { leg \in AllLegs : /\ leg.instrument = "option"
                        /\ ~IsNone(leg.option_type)
                        /\ ~IsNone(leg.strike)
                        /\ ~IsNone(leg.premium) }

ExpiryPrices == { 40, 47, 60 }

PricerIdle == bs_in = BSNoArgs /\ bs_out = BSFail("idle")
SolverIdle ==
    iv_in = IVNoArgs /\ iv_sigma0 = 0 /\ iv = IVIdle /\ iv_out = IVFail("idle")

PortfolioIdle ==
    pf_op = "idle" /\ pf_legs = << >> /\ pf_S = 0 /\ pf_out = PFail("idle")

CurveArgs(legs, s_min, s_max, steps, tol) ==
    [called |-> TRUE, legs |-> legs, s_min |-> s_min, s_max |-> s_max,
     steps |-> steps, tol |-> tol]

\* no call of portfolio_curve: the curve is given
CurveNoArgs(tol) == [CurveArgs(<< >>, 0, 0, 0, tol) EXCEPT !.called = FALSE]

CurveIdle ==
    /\ cv_in = CurveNoArgs(0)
    /\ cv_curve = CurveFail("idle")
    /\ cv_bes = [err |-> "idle", bes |-> << >>]

TieFields ==
    { "bid", "ask", "mid", "spread_pct", "expected_profit", "prob_profit",
      "entry_cost", "max_loss", "max_profit", "breakeven", "var_worst_loss",
      "reward_risk", "score" }

Rnd(u, pattern, seed, tie) ==
    [u |-> u, oi |-> pattern, vol |-> pattern, seed |-> seed, tie |-> tie]

\* a call with the defaults of pick_best_strategy (lines 122-137); Kshort,
\* Klong, credit and iv are the arguments of a call of ev_bull_put_credit, K,
\* premium and iv those of a call of ev_single_call
RcArgs(op, spot, dte, contracts, rnd) ==
    [op |-> op, symbol |-> "SPY", spot |-> spot, dte |-> dte,
     contracts |-> contracts,
     max_loss_dollars |-> << >>, max_drawdown_dollars |-> << >>,
     var_alpha |-> 950, min_expected_profit |-> NegHuge, min_prob_profit |-> 0,
     min_reward_risk |-> 0, min_oi |-> 0, min_vol |-> 0,
     max_spread_pct |-> 100 * Cent,
     allow_single_call |-> TRUE, allow_bull_put |-> TRUE,
     Kshort |-> 0, Klong |-> 0, credit |-> 0, K |-> 0, premium |-> 0,
     iv |-> 0, rnd |-> rnd]

RcNoArgs == RcArgs("none", 0, 0, 0, Rnd(0, 0, 0, {}))

RecommenderIdle ==
    /\ rc_in = RcNoArgs
    /\ rc_pc = "idle"
    /\ rc_chain = ChainNone
    /\ rc_cands = << >>
    /\ rc_cons = << >>
    /\ rc_out = RcIdle

SvIdle == SvResponse("idle", << >>, 0, << >>)
SvPending == SvResponse("none", << >>, 0, << >>)

StoreIdle == sv_rows = << >> /\ sv_seq = 0 /\ sv_out = SvIdle

InitBS ==
    /\ StoreIdle
    /\ bs_in \in [S : SpotValues, K : StrikeValues, T : TimeValues,
                  r : RateValues, q : YieldValues, sigma : SigmaValues]
    /\ bs_out = BSFail("pending")
    /\ SolverIdle
    /\ PortfolioIdle
    /\ CurveIdle
    /\ RecommenderIdle

NextBS == BlackScholes

SpecBS == InitBS /\ [][NextBS]_vars

InitIV ==
    /\ StoreIdle
    /\ PricerIdle
    /\ PortfolioIdle
    /\ CurveIdle
    /\ RecommenderIdle
    /\ iv = IVStart
    /\ iv_out = IVFail("pending")
    /\ \E p \in IVParams, tol \in TolValues, mi \in MaxIterValues :
         \/ \E ty \in ValidRawTypes, s0 \in Sigma0Values :
              /\ iv_sigma0 = s0
              /\ iv_in = IVArgs(p, ty, price_for(p, NormType(ty), s0).price, tol, mi)
         \/ \E ty \in ValidRawTypes \cup InvalidRawTypes, mp \in FreePrices,
                 br \in IVBrackets :
              /\ iv_sigma0 = 0
              /\ iv_in = [IVArgs(p, ty, mp, tol, mi)
                            EXCEPT !.vol_low = br[1], !.vol_high = br[2]]

NextIV ==
    \/ IVValidate
    \/ IVEvalLow
    \/ IVEvalHigh
    \/ IVExpand
    \/ IVBracket
    \/ IVBisect
    \/ IVReturnFinal

SpecIV == InitIV /\ [][NextIV]_vars

InitPF ==
    /\ StoreIdle
    /\ PricerIdle
    /\ SolverIdle
    /\ CurveIdle
    /\ RecommenderIdle
    /\ pf_out = PFail("pending")
    /\ \/ pf_op = "pnl" /\ IsLegList(pf_legs) /\ pf_S \in ExpiryPrices
       \/ pf_op = "leg" /\ pf_legs \in [1..1 -> AllLegs] /\ pf_S \in ExpiryPrices
       \/ pf_op = "cashflow" /\ IsLegList(pf_legs) /\ pf_S = 0
       \/ pf_op = "single" /\ pf_legs \in [1..1 -> SingleLegs]
                           /\ pf_S \in ExpiryPrices

NextPF ==
    \/ PortfolioPnl
    \/ LegPnl
    \/ NetCashflow
    \/ SingleOptionPnl

SpecPF == InitPF /\ [][NextPF]_vars

MaxPoints == 4

\* the long call of the breakeven scenario: K=100, premium=5
LongCall100 == OptionLeg(CallStr, 100, 5, LongStr, 1, 100)

CurveLegLists ==
    { << >>,
      << LongCall100 >>,
      << LongCall >>,
      << LongCall, OptionLeg(PutStr, 50, 2, LongStr, 1, 100) >>,
      << OptionLeg(PutStr, 100, 20, ShortStr, 1, 1), LongStock >>,
      << LongCall, [LongCall EXCEPT !.premium = << -2 >>] >> }

CurveMins == { -10, 0, 40, 80 }
CurveMaxs == { 0, 40, 60, 120 }
CurveSteps == { 0, 1, 2, 3, 4, 5, 41 }

\* the underlyings of the curves given to breakevens_from_curve: wide apart,
\* next to each other, unevenly spaced, and with a first gap that is not a
\* representable number
GivenUnderlying(family, i) ==
    IF family = 1 THEN 16 * i
    ELSE IF family = 2 THEN i
    ELSE IF family = 3 THEN 10 + i * i
    ELSE IF i = 1 THEN 3 ELSE 130 + 4 * (i - 1)

GivenFamilies == 1..4

GivenPnls == { -256, -40, -1, 0, 1, 3, 256 }

\* 1e-6 in the unit of a given curve: below the unit, or two units
GivenTols == { 0, 2 }

InitCV ==
    /\ StoreIdle
    /\ PricerIdle
    /\ SolverIdle
    /\ PortfolioIdle
    /\ RecommenderIdle
    /\ cv_bes = BesPending
    /\ \/ /\ cv_in \in { CurveArgs(legs, s_min, s_max, steps, 0) :
                           legs \in CurveLegLists, s_min \in CurveMins,
                           s_max \in CurveMaxs, steps \in CurveSteps }
          /\ cv_curve = CurveFail("pending")
       \/ \E n \in 0..MaxPoints, family \in GivenFamilies, tol \in GivenTols :
             \E pnls \in [1..n -> GivenPnls] :
                /\ cv_in = CurveNoArgs(tol)
                /\ cv_curve = CurveOk([i \in 1..n |->
                                 PLPoint(GivenUnderlying(family, i), pnls[i])])

NextCV ==
    \/ PortfolioCurve
    \/ BreakevensFromCurve

SpecCV == InitCV /\ [][NextCV]_vars

(***************************************************************************)
(* Calls of make_chain, ev_bull_put_credit and pick_best_strategy          *)
(***************************************************************************)
\* spot in cents: below and above 1, around the change of step at 100, and
\* halfway between two strikes
ChainSpots ==
    { 1, 50, 150, 250, 4700, 9750, 9999, 10000, 10249, 10250, 10251, 10750,
      25000 }

ChainDtes == { 1, 30, 365 }

ChainRnds ==
    { Rnd(u, pattern, 0, tie) :
        u \in { 0, 500, 999 }, pattern \in 0..3, tie \in { {}, TieFields } }

\* the constraints of a call of pick_best_strategy: the defaults, a floor on
\* the expected profit nothing reaches, a cap of 0 on max_loss, a cap on the
\* drawdown, a floor on reward:risk, a floor on the probability of profit, a
\* floor on reward:risk of 1000000
Constraints(a, profile) ==
    CASE profile = 1 -> [a EXCEPT !.min_expected_profit = -NegHuge]
      [] profile = 2 -> [a EXCEPT !.max_loss_dollars = << 0 >>]
      [] profile = 3 -> [a EXCEPT !.max_drawdown_dollars = << 50 * Cent >>]
      [] profile = 4 -> [a EXCEPT !.min_reward_risk = SC \div 2]
      [] profile = 5 -> [a EXCEPT !.min_prob_profit = QS \div 2]
      [] profile = 6 -> [a EXCEPT !.min_reward_risk = 1000000 * SC]
      [] OTHER -> a

\* the liquidity filter: the defaults, a floor on oi, a cap on the spread, a
\* floor on oi and vol no item reaches
Liquidity(a, profile) ==
    CASE profile = 1 -> [a EXCEPT !.min_oi = 1500]
      [] profile = 2 -> [a EXCEPT !.max_spread_pct = 10 * Cent]
      [] profile = 3 -> [a EXCEPT !.min_oi = 5000, !.min_vol = 1000]
      [] OTHER -> a

PickSpots == { 500, 10250 }
PickDtes == { 30, 1000000 }
PickRnds == { Rnd(500, 3, 0, {}), Rnd(999, 0, 1, TieFields) }

PickCalls ==
    { [Liquidity(Constraints(RcArgs("pick", spot, dte, contracts, rnd), c), l)
         EXCEPT !.allow_single_call = calls, !.allow_bull_put = puts] :
        spot \in PickSpots, dte \in PickDtes, contracts \in { 1, 3 },
        rnd \in PickRnds, c \in 0..6, l \in 0..3,
        calls \in BOOLEAN, puts \in BOOLEAN }

\* ev_bull_put_credit(100, 100, Klong, credit, 0.2, 30, contracts, 0.95)
SpreadLongs == { 95, 99, 100, 101 }
SpreadCredits ==
    { -1000, 0, 1, 4, 5, 6, 15, 1000, 50000, 99995, 99999, 100000, 250000,
      499995, 500000 }
SpreadSpots == { 100 * Cent, 150 * Cent }
SpreadTies == { "max_profit", "max_loss", "var_worst_loss", "expected_profit" }
SpreadCalls ==
    { [RcArgs("spread", spot, 30, contracts, Rnd(0, 0, seed, tie))
         EXCEPT !.Kshort = 100, !.Klong = Klong, !.credit = credit, !.iv = 2000] :
        spot \in SpreadSpots, Klong \in SpreadLongs, credit \in SpreadCredits,
        contracts \in { 1, 2, 3 }, seed \in { 0, 1 }, tie \in SUBSET SpreadTies }

\* ev_single_call(100, K, premium, 0.2, 30, contracts, var_alpha)
CallStrikes == { 50, 100, 150 }
CallPremiums == { 5, 15, 1000, 12345, 33000 }
CallAlphas == { 0, 500, 950, 1000 }
CallCalls ==
    { [RcArgs("call", 100 * Cent, 30, contracts, Rnd(0, 0, seed, tie))
         EXCEPT !.K = K, !.premium = premium, !.iv = 2000, !.var_alpha = alpha] :
        K \in CallStrikes, premium \in CallPremiums, alpha \in CallAlphas,
        contracts \in { 1, 3 }, seed \in { 0, 1 },
        tie \in SUBSET { "max_loss", "var_worst_loss", "expected_profit" } }

InitRC ==
    /\ StoreIdle
    /\ PricerIdle
    /\ SolverIdle
    /\ PortfolioIdle
    /\ CurveIdle
    /\ rc_chain = ChainNone
    /\ rc_cands = << >>
    /\ rc_cons = << >>
    /\ rc_out = RcPending
    /\ \/ /\ rc_in \in { RcArgs("chain", spot, dte, 1, rnd) :
                           spot \in ChainSpots, dte \in ChainDtes, rnd \in ChainRnds }
          /\ rc_pc = "chain"
       \/ /\ rc_in \in PickCalls
          /\ rc_pc = "chain"
       \/ /\ rc_in \in SpreadCalls
          /\ rc_pc = "spread"
       \/ /\ rc_in \in CallCalls
          /\ rc_pc = "call"

NextRC ==
    \/ MakeChain
    \/ PickGenerate
    \/ PickConstrain
    \/ PickBest
    \/ EvBullPutCredit
    \/ EvSingleCall

SpecRC == InitRC /\ [][NextRC]_vars

(***************************************************************************)
(* Requests to the saved_items routes, on the empty table init_db creates  *)
(***************************************************************************)
InitSV ==
    /\ PricerIdle
    /\ SolverIdle
    /\ PortfolioIdle
    /\ CurveIdle
    /\ RecommenderIdle
    /\ sv_rows = << >>
    /\ sv_seq = 0
    /\ sv_out = SvPending

NextSV ==
    \/ Create
    \/ SaveTemplate
    \/ ImportAll
    \/ ClearAll
    \/ DeleteItem
    \/ ExportAll
    \/ ListItems

SpecSV == InitSV /\ [][NextSV]_vars

(***************************************************************************)
(* Properties of black_scholes                                             *)
(***************************************************************************)
BSDone == bs_out.err \notin { "pending", "idle" }

BSArgsBad == bs_in.S <= 0 \/ bs_in.K <= 0 \/ bs_in.T <= 0 \/ bs_in.sigma <= 0

ParityTol == 2

\* C6: put-call parity: a returned result satisfies
\* call_price - put_price = S*exp(-q*T) - K*exp(-r*T) up to the rounding of
\* the four products.
C6_PutCallParity ==
    (BSDone /\ bs_out.err = "none") =>
        LET Sd == (bs_in.S * Disc(bs_in.q, bs_in.T)) \div QS
            Kd == (bs_in.K * Disc(bs_in.r, bs_in.T)) \div QS
        IN  Abs((bs_out.call_price - bs_out.put_price) - (Sd - Kd)) <= ParityTol

\* a priced option out of the money, both prices positive, r < 0 < q
C6_Witness ==
    /\ bs_out.err = "none"
    /\ bs_out.call_price > 0 /\ bs_out.put_price > 0
    /\ bs_in.S < bs_in.K /\ bs_in.r < 0 /\ bs_in.q > 0

(***************************************************************************)
(* Properties of implied_vol_bisection                                     *)
(***************************************************************************)
IVDone == iv.pc = "done"

\* f(vol) = price_for(vol) - market_price of the call under way
F(vol) == price_for(iv_in, NormType(iv_in.option_type), vol).price
              - iv_in.market_price

\* vol_high after n expansions
RECURSIVE HighAfter(_, _)
HighAfter(vol_high, n) ==
    IF n = 0 THEN vol_high ELSE (HighAfter(vol_high, n - 1) * 3) \div 2

IVArgsBad ==
    \/ iv_in.market_price <= 0
    \/ iv_in.option_type \in InvalidRawTypes

\* C2: with market_price <= 0, or an option_type that is neither call nor put
\* once lower-cased and trimmed, the call fails with ValueError and the pricer
\* is never evaluated.
C2_RejectedBeforePricing ==
    (iv.pc # "idle" /\ IVArgsBad) =>
        /\ iv.pc \in { "start", "done" }
        /\ iv.evals = 0
        /\ IVDone => iv_out = IVFail("ValueError")

\* a call rejected for its option_type alone
C2_Witness ==
    /\ IVDone
    /\ iv_out = IVFail("ValueError")
    /\ iv.evals = 0
    /\ iv_in.market_price > 0
    /\ iv_in.option_type = << "c", "a", "l", "l", "s" >>

\* the call is past the evaluation of both endpoints
IVPastEndpoints == iv.pc \in { "expand", "bisect" } \/ (IVDone /\ iv.evals >= 2)

IVBracketed == iv.b_high > 0

\* C4: a call that has passed validation and bracketing evaluates at most
\* max_iter midpoints (one per loop iteration, the loop counter never passing
\* max_iter + 1) and ends without failing with 1 <= iterations <= max_iter;
\* when the loop runs out it returns the midpoint of the final interval with
\* iterations = max_iter.
C4_BisectionBounded ==
    IVBracketed =>
        /\ iv.pc \in { "bisect", "done" }
        /\ iv.mids <= iv_in.max_iter
        /\ iv.i <= iv_in.max_iter + 1
        /\ iv.pc = "bisect" => iv.mids = iv.i - 1
        /\ IVDone =>
              /\ iv_out.err = "none"
              /\ 1 <= iv_out.iterations /\ iv_out.iterations <= iv_in.max_iter
              /\ iv_out.iterations = Min(iv.i, iv_in.max_iter)
              /\ iv.i > iv_in.max_iter =>
                    /\ iv_out.implied_vol = Midpoint(iv.low, iv.high)
                    /\ iv.mids = iv_in.max_iter

\* the loop ran out: max_iter midpoints evaluated, none converged
C4_Witness ==
    /\ IVDone
    /\ IVBracketed
    /\ iv.i = iv_in.max_iter + 1
    /\ iv.mids = iv_in.max_iter
    /\ iv_out = IVResult(Midpoint(iv.low, iv.high), iv_in.max_iter)

\* a round trip under the default max_iter: market_price is the price at
\* iv_sigma0, and the call has ended
IVRoundTripDone == IVDone /\ iv_sigma0 > 0 /\ iv_in.max_iter = MaxIter

\* 1e-4, a hundred times the default tol, follows the tol of the call
RoundTripTol == 100 * iv_in.tol

\* C5 as claimed: the round trip returns an implied_vol within 1e-4 of sigma0.
C5_RoundTripRecovers ==
    IVRoundTripDone =>
        /\ iv_out.err = "none"
        /\ Abs(iv_out.implied_vol - iv_sigma0) <= RoundTripTol

\* C5 as amended: the round trip fails with ValueError when the price at
\* sigma0 is not positive and otherwise fails with ValueError or returns; a
\* returned implied_vol reprices to within tol of the market price, or lies in
\* an interval of half-width < tol whose endpoints bracket a sign change of
\* price - market_price.
C5_RoundTripReprices ==
    IVRoundTripDone =>
        /\ iv_in.market_price <= 0 => iv_out = IVFail("ValueError")
        /\ iv_out.err \in { "none", "ValueError" }
        /\ iv_out.err = "none" =>
              \/ Abs(F(iv_out.implied_vol)) < iv_in.tol
              \/ /\ iv.high - iv.low < 2 * iv_in.tol
                 /\ iv.low <= iv_out.implied_vol /\ iv_out.implied_vol <= iv.high
                 /\ SignProd(F(iv.low), F(iv.high)) <= 0

\* a round trip that returns a volatility far from sigma0 at the same price
C5_Witness ==
    /\ IVRoundTripDone
    /\ iv_out.err = "none"
    /\ Abs(iv_out.implied_vol - iv_sigma0) > RoundTripTol
    /\ F(iv_out.implied_vol) = 0

(***************************************************************************)
(* Properties of the portfolio engine                                      *)
(***************************************************************************)
PFDone == pf_out.err \notin { "pending", "idle" }

Missing(x) == x = << >>
Given(x) == x # << >>

UnknownSide(leg) == leg.side \notin { LongStr, ShortStr }

\* the invalid legs as the interface lists them
LegInvalid(leg) ==
    \/ /\ leg.instrument = "option"
       /\ \/ Missing(leg.option_type)
          \/ Missing(leg.strike) \/ (Given(leg.strike) /\ leg.strike[1] <= 0)
          \/ Missing(leg.premium) \/ (Given(leg.premium) /\ leg.premium[1] < 0)
          \/ leg.qty <= 0
          \/ leg.contract_size <= 0
    \/ /\ leg.instrument = "stock"
       /\ \/ Missing(leg.shares) \/ (Given(leg.shares) /\ leg.shares[1] <= 0)
          \/ Missing(leg.entry_price)
          \/ (Given(leg.entry_price) /\ leg.entry_price[1] <= 0)
    \/ leg.instrument \notin { "option", "stock" }
    \/ UnknownSide(leg)

TypeOf(leg) == NormType(leg.option_type[1])

LegValid(leg) ==
    /\ ~LegInvalid(leg)
    /\ leg.instrument = "option" => TypeOf(leg) \in { CallStr, PutStr }

AllValid(legs) == legs # << >> /\ \A i \in 1..Len(legs) : LegValid(legs[i])

\* the floating-point sum of a list of numbers, from the left
RECURSIVE FSum(_)
FSum(vals) ==
    IF vals = << >> THEN 0
    ELSE FAdd(FSum(SubSeq(vals, 1, Len(vals) - 1)), vals[Len(vals)])

LegValues(legs, S) == [i \in 1..Len(legs) |-> leg_pnl_at_expiry(legs[i], S).value]

Reordered(legs, p) == [i \in 1..Len(legs) |-> legs[p[i]]]

OrderIndependent(legs, S) ==
    \A p \in Permutations(1..Len(legs)) :
        portfolio_pnl_at_expiry(Reordered(legs, p), S) = pf_out

PnlOfValidLegs == pf_op = "pnl" /\ PFDone /\ AllValid(pf_legs)

\* C7 as stated: for every non-empty list of valid legs and every S,
\* portfolio_pnl_at_expiry(legs, S) is the sum of the legs' P&Ls, each computed
\* on its own, and is the same for every order of the legs.
C7_OrderIndependent ==
    PnlOfValidLegs =>
        /\ pf_out.err = "none"
        /\ pf_out.value = FSum(LegValues(pf_legs, pf_S))
        /\ OrderIndependent(pf_legs, pf_S)

\* C7 as the code has it: for every non-empty list of valid legs and every S,
\* portfolio_pnl_at_expiry(legs, S) is the floating-point sum, in list order,
\* of the legs' P&Ls, each computed on its own; it is the same for every order
\* of the legs when there are at most two of them.
C7_SumInListOrder ==
    PnlOfValidLegs =>
        /\ pf_out.err = "none"
        /\ pf_out.value = FSum(LegValues(pf_legs, pf_S))
        /\ Len(pf_legs) <= 2 => OrderIndependent(pf_legs, pf_S)

C7_Witness ==
    /\ PnlOfValidLegs
    /\ Len(pf_legs) = 2
    /\ pf_legs[1].instrument # pf_legs[2].instrument
    /\ pf_out.value # 0

\* the P&L of a valid option leg by the formulas of the interface
OptionPnlFormula(ot, long, S, K, premium, qty, contract_size) ==
    LET payoff == IF ot = CallStr THEN Max(FSub(S, K), 0) ELSE Max(FSub(K, S), 0)
        per_share == IF long THEN FSub(payoff, premium) ELSE FSub(premium, payoff)
    IN  FMul(FMul(per_share, qty), contract_size)

StockPnlFormula(long, S, entry_price, shares) ==
    IF long THEN FMul(FSub(S, entry_price), shares)
    ELSE -FMul(FSub(S, entry_price), shares)

LegPnlFormula(leg, S) ==
    IF leg.instrument = "option"
    THEN OptionPnlFormula(TypeOf(leg), leg.side = LongStr, S, leg.strike[1],
                          leg.premium[1], leg.qty, leg.contract_size)
    ELSE StockPnlFormula(leg.side = LongStr, S, leg.entry_price[1], leg.shares[1])

SingleArgsValid(leg) ==
    /\ leg.premium[1] >= 0 /\ leg.qty > 0 /\ leg.contract_size > 0
    /\ TypeOf(leg) \in { CallStr, PutStr }
    /\ NormType(leg.side) \in { LongStr, ShortStr }

\* C8: the P&L at expiry of a valid option leg is (payoff - premium) * qty *
\* contract_size when long and (premium - payoff) * qty * contract_size when
\* short, with payoff max(S-K,0) for a call and max(K-S,0) for a put, from
\* leg_pnl_at_expiry and from single_option_pnl alike; that of a valid stock
\* leg is (S - entry_price) * shares when long and the negation when short,
\* whatever qty and contract_size are; a long call K=50, premium=2, qty=1,
\* contract_size=100 at S=60 gives 800.
C8_LegPnlFormulas ==
    /\ (pf_op = "leg" /\ PFDone /\ LegValid(pf_legs[1])) =>
          /\ pf_out = POk(LegPnlFormula(pf_legs[1], pf_S))
          /\ pf_legs[1].instrument = "stock" =>
                \A n \in { 0, 1, 7 }, c \in { 0, 1, 100 } :
                    leg_pnl_at_expiry(
                        [pf_legs[1] EXCEPT !.qty = n, !.contract_size = c],
                        pf_S) = pf_out
    /\ (pf_op = "single" /\ PFDone /\ SingleArgsValid(pf_legs[1])) =>
          pf_out = POk(OptionPnlFormula(TypeOf(pf_legs[1]),
                                        NormType(pf_legs[1].side) = LongStr, pf_S,
                                        pf_legs[1].strike[1], pf_legs[1].premium[1],
                                        pf_legs[1].qty, pf_legs[1].contract_size))
    /\ (pf_op \in { "leg", "single" } /\ PFDone /\ pf_legs = << LongCall >>
          /\ pf_S = 60) => pf_out = POk(800)

C8_Witness ==
    /\ pf_op = "leg"
    /\ pf_legs = << LongCall >>
    /\ pf_S = 60
    /\ pf_out = POk(800)

\* C9: portfolio_pnl_at_expiry fails with ValueError and returns no number
\* when legs is empty or when a leg at any position is invalid: an option leg
\* with option_type missing, strike missing or <= 0, premium missing or < 0,
\* qty <= 0 or contract_size <= 0; a stock leg with shares missing or <= 0 or
\* entry_price missing or <= 0; an unknown instrument; an unknown side.
C9_InvalidLegsRejected ==
    (/\ pf_op = "pnl"
     /\ PFDone
     /\ \/ pf_legs = << >>
        \/ \E i \in 1..Len(pf_legs) : LegInvalid(pf_legs[i]))
    => pf_out = PFail("ValueError")

C9_Witness ==
    /\ pf_op = "pnl"
    /\ Len(pf_legs) = 3
    /\ LegValid(pf_legs[1]) /\ LegValid(pf_legs[2])
    /\ LegInvalid(pf_legs[3])
    /\ pf_out = PFail("ValueError")

\* the invalid legs C10 names
CashflowLegInvalid(leg) ==
    \/ UnknownSide(leg)
    \/ Given(leg.premium) /\ leg.premium[1] < 0
    \/ Given(leg.strike) /\ leg.strike[1] <= 0
    \/ Given(leg.shares) /\ leg.shares[1] <= 0
    \/ Given(leg.entry_price) /\ leg.entry_price[1] <= 0

\* C10 as stated: net_cashflow_at_entry fails with ValueError for every leg
\* list that holds a leg with an unknown side, a negative premium, a
\* non-positive strike, or non-positive shares or entry_price: it rejects
\* every leg list that portfolio_pnl_at_expiry rejects.
C10_CashflowRejectsInvalidLegs ==
    (pf_op = "cashflow" /\ PFDone) =>
        /\ (\E i \in 1..Len(pf_legs) : CashflowLegInvalid(pf_legs[i]))
              => pf_out.err = "ValueError"
        /\ \A S \in ExpiryPrices :
              portfolio_pnl_at_expiry(pf_legs, S).err = "ValueError"
                  => pf_out.err = "ValueError"

\* the cash a leg with a known side brings in at entry, by the interface
CashContribution(leg) ==
    LET cash == IF leg.instrument = "option"
                THEN FMul(FMul(leg.premium[1], leg.qty), leg.contract_size)
                ELSE FMul(leg.entry_price[1], leg.shares[1])
    IN  IF leg.side = ShortStr THEN cash ELSE -cash

CashContributions(legs) == [i \in 1..Len(legs) |-> CashContribution(legs[i])]

CashflowReturned ==
    /\ pf_op = "cashflow"
    /\ pf_out.err = "none"
    /\ \A i \in 1..Len(pf_legs) : ~UnknownSide(pf_legs[i])

\* C11: net_cashflow_at_entry returns for every list of valid legs, and what
\* it returns for legs that are long or short is the sum, in list order, of
\* +premium*qty*contract_size for each short option leg, of
\* -premium*qty*contract_size for each long option leg, of +entry_price*shares
\* for each short stock leg and of -entry_price*shares for each long stock
\* leg: for valid legs a credit counts positive and a debit negative.
C11_CashflowSigned ==
    /\ (pf_op = "cashflow" /\ PFDone /\ AllValid(pf_legs)) =>
          /\ pf_out.err = "none"
          /\ \A i \in 1..Len(pf_legs) :
                /\ pf_legs[i].side = ShortStr => CashContribution(pf_legs[i]) >= 0
                /\ pf_legs[i].side = LongStr => CashContribution(pf_legs[i]) <= 0
    /\ CashflowReturned => pf_out.value = FSum(CashContributions(pf_legs))

C11_Witness ==
    /\ CashflowReturned
    /\ AllValid(pf_legs)
    /\ \E i, j \in 1..Len(pf_legs) :
          /\ pf_legs[i].instrument = "option" /\ pf_legs[i].side = ShortStr
          /\ pf_legs[j].instrument = "stock" /\ pf_legs[j].side = LongStr
    /\ pf_out.value < 0

(***************************************************************************)
(* Properties of portfolio_curve and breakevens_from_curve                 *)
(***************************************************************************)
CurveDone == cv_in.called /\ cv_curve.err \notin { "pending", "idle" }

Underlying(i) == cv_curve.points[i].underlying

\* C12 as stated: for s_min > 0, s_max > s_min, steps >= 2 and valid legs
\* portfolio_curve returns exactly steps points, equally spaced and strictly
\* ascending in underlying, the first at s_min and the last at s_max, each
\* with the pnl of portfolio_pnl_at_expiry at its underlying; for steps < 2,
\* s_min <= 0, s_max <= 0 or s_max <= s_min it fails with ValueError and
\* returns no points.
C12_CurveSamplesRange ==
    CurveDone =>
        /\ (cv_in.steps >= 2 /\ cv_in.s_min > 0 /\ cv_in.s_max > cv_in.s_min
              /\ AllValid(cv_in.legs)) =>
              /\ cv_curve.err = "none"
              /\ Len(cv_curve.points) = cv_in.steps
              /\ \A i \in 1..(cv_in.steps - 1) : Underlying(i) < Underlying(i + 1)
              /\ \A i \in 2..(cv_in.steps - 1) :
                    Underlying(i + 1) - Underlying(i) = Underlying(2) - Underlying(1)
              /\ Underlying(1) = cv_in.s_min
              /\ Underlying(cv_in.steps) = cv_in.s_max
              /\ \A i \in 1..cv_in.steps :
                    POk(cv_curve.points[i].pnl)
                        = portfolio_pnl_at_expiry(cv_in.legs, Underlying(i))
        /\ (cv_in.steps < 2 \/ cv_in.s_min <= 0 \/ cv_in.s_max <= 0
              \/ cv_in.s_max <= cv_in.s_min) =>
              cv_curve = CurveFail("ValueError")

BesDone == cv_bes.err = "none"

Curve == cv_curve.points

\* x is in the returned list, up to the tolerance of the deduplication
Reported(x) == \E j \in 1..Len(cv_bes.bes) : Abs(cv_bes.bes[j] - x) <= cv_in.tol

\* C13 as stated: every sample point of the curve whose pnl is exactly 0,
\* the first and the last included, has its underlying in the list
\* breakevens_from_curve returns, up to the 1e-6 of the deduplication.
C13_ExactZerosReported ==
    BesDone =>
        \A i \in 1..Len(Curve) : Curve[i].pnl = 0 => Reported(Curve[i].underlying)

\* the pair of the k-th point and the next has pnl_a * pnl_b < 0
SignChange(k) == SignProd(Curve[k].pnl, Curve[k + 1].pnl) < 0

\* x = x_a + (-pnl_a)(x_b - x_a)/(pnl_b - pnl_a) for the k-th pair
RootFormula(k) ==
    LET a == Curve[k]
        b == Curve[k + 1]
    IN  FAdd(a.underlying,
             FDiv(FMul(-a.pnl, FSub(b.underlying, a.underlying)),
                  FSub(b.pnl, a.pnl)))

\* every returned value is the root of a sign change or a zero sample point
OnlyRootsAndZeros ==
    \A j \in 1..Len(cv_bes.bes) :
        \/ \E k \in 1..(Len(Curve) - 1) : SignChange(k) /\ cv_bes.bes[j] = RootFormula(k)
        \/ \E i \in 1..Len(Curve) :
              Curve[i].pnl = 0 /\ cv_bes.bes[j] = Curve[i].underlying

\* the scenario: long call K=100, premium=5 sampled on [80,120], steps=41
BreakevenScenario ==
    cv_in = CurveArgs(<< LongCall100 >>, 80, 120, 41, 0)

ScenarioFindsBreakeven ==
    (BesDone /\ BreakevenScenario) =>
        \E j \in 1..Len(cv_bes.bes) : Abs(cv_bes.bes[j] - 105) <= 1

\* C14 as stated: for every adjacent pair (a,b) with pnl_a * pnl_b < 0 the
\* list holds the interpolated root x_a + (-pnl_a)(x_b - x_a)/(pnl_b - pnl_a),
\* which lies strictly between x_a and x_b; the list holds nothing but such
\* roots and zero sample points; the scenario returns a breakeven within one
\* sampling step of 105.
C14_RootsStrictlyInside ==
    BesDone =>
        /\ \A k \in 1..(Len(Curve) - 1) :
              SignChange(k) =>
                 /\ Reported(RootFormula(k))
                 /\ Curve[k].underlying < RootFormula(k)
                 /\ RootFormula(k) < Curve[k + 1].underlying
        /\ OnlyRootsAndZeros
        /\ ScenarioFindsBreakeven

\* 4 units in the last place of x
FourUlps(x) == 4 * UlpFrom(Abs(x), 1)

\* C14 as the code has it: the same, but the root, computed in floating
\* point, lies between x_a and x_b only up to rounding: it is never below
\* x_a, can be x_a or x_b, and is above x_b by at most 4 units in the last
\* place of x_b.
C14_RootsInside ==
    BesDone =>
        /\ \A k \in 1..(Len(Curve) - 1) :
              SignChange(k) =>
                 /\ Reported(RootFormula(k))
                 /\ Curve[k].underlying <= RootFormula(k)
                 /\ RootFormula(k) <= Curve[k + 1].underlying
                                         + FourUlps(Curve[k + 1].underlying)
        /\ OnlyRootsAndZeros
        /\ ScenarioFindsBreakeven

\* a sign change whose root lies strictly inside its pair is returned
C14_Witness ==
    /\ BesDone
    /\ \E k \in 1..(Len(Curve) - 1), j \in 1..Len(cv_bes.bes) :
          /\ SignChange(k)
          /\ cv_bes.bes[j] = RootFormula(k)
          /\ Curve[k].underlying < RootFormula(k)
          /\ RootFormula(k) < Curve[k + 1].underlying

\* C15: the list breakevens_from_curve returns is ascending and any two
\* consecutive values of it differ by more than 1e-6; a curve of fewer than
\* 2 points yields the empty list.
C15_SortedDeduplicated ==
    BesDone =>
        /\ \A j \in 1..(Len(cv_bes.bes) - 1) :
              cv_bes.bes[j + 1] - cv_bes.bes[j] > cv_in.tol
        /\ Len(Curve) < 2 => cv_bes.bes = << >>

\* two values are returned and a third, within 1e-6 of one of them, is not
C15_Witness ==
    /\ BesDone
    /\ cv_in.tol > 0
    /\ Len(cv_bes.bes) >= 2
    /\ Len(ScanPairs(Curve, 1, << >>)) > Len(cv_bes.bes)

(***************************************************************************)
(* Claims about the chain (chain_sim.py) and the recommender               *)
(* (recommender.py)                                                        *)
(***************************************************************************)
ChainDone == rc_chain # ChainNone

Strike(n) == rc_chain.items[n].strike

\* the step the chain is to have for its spot
StatedStep == IF rc_in.spot < 100 * Cent THEN 1 ELSE 5

\* C16: for every spot > 0 make_chain returns exactly 25 items, the strikes
\* are strictly increasing and evenly spaced by step, step is 1 for spot < 100
\* and 5 otherwise, and the 13th strike is a multiple of step at most half a
\* step away from spot, which is spot rounded to the nearest multiple of step.
C16_ChainStrikes ==
    (ChainDone /\ rc_in.spot > 0) =>
        /\ Len(rc_chain.items) = 25
        /\ rc_chain.step = StatedStep
        /\ \A n \in 1..(Len(rc_chain.items) - 1) :
              /\ Strike(n) < Strike(n + 1)
              /\ Strike(n + 1) - Strike(n) = StatedStep
        /\ Strike(13) % StatedStep = 0
        /\ 2 * Abs(Strike(13) * Cent - rc_in.spot) <= StatedStep * Cent

\* a chain for a spot halfway between two multiples of 5: 107.50 gives 110
C16_Witness ==
    /\ ChainDone
    /\ rc_in.op = "chain"
    /\ rc_in.spot = 10750
    /\ Strike(13) = 110
    /\ Strike(1) = 50

PickGenerated == rc_in.op = "pick" /\ rc_pc \in { "constrain", "return", "done" }

\* the dict a degenerate spread yields (line 76), with the meta of line 178
Placeholder(c) == "strategy" \notin DOMAIN c

\* C17 as stated: every candidate pick_best_strategy generates, the result
\* for a degenerate spread included, has prob_profit in [0,1] and has a
\* var_worst_loss, which is >= 0.
C17_CandidatesBounded ==
    PickGenerated =>
        \A i \in 1..Len(rc_cands) :
            /\ rc_cands[i].prob_profit >= 0
            /\ rc_cands[i].prob_profit <= QS
            /\ "var_worst_loss" \in DOMAIN rc_cands[i]
            /\ rc_cands[i].var_worst_loss >= 0

SpreadDone == rc_in.op = "spread" /\ rc_pc = "done"
SpreadWidth == Max(0, rc_in.Kshort - rc_in.Klong) * PS

\* a returned bull-put candidate with 0 < credit < width
SpreadReturned ==
    /\ SpreadDone
    /\ 0 < rc_in.credit
    /\ rc_in.credit < SpreadWidth
    /\ ~Placeholder(rc_out.ret)

\* width * 100 * contracts, in cents
SpreadWidthCents == (SpreadWidth * rc_in.contracts) \div 10

\* C18 as stated: for every bull-put candidate returned by ev_bull_put_credit
\* with 0 < credit < width, max_profit + max_loss == width * 100 * contracts,
\* max_profit = credit * 100 * contracts > 0 and
\* max_loss = (width - credit) * 100 * contracts > 0.
C18_SpreadIdentity ==
    SpreadReturned =>
        /\ rc_out.ret.max_profit[1] + rc_out.ret.max_loss = SpreadWidthCents
        /\ 10 * rc_out.ret.max_profit[1] = rc_in.credit * rc_in.contracts
        /\ rc_out.ret.max_profit[1] > 0
        /\ 10 * rc_out.ret.max_loss = (SpreadWidth - rc_in.credit) * rc_in.contracts
        /\ rc_out.ret.max_loss > 0

\* C18, amended: max_profit and max_loss are credit * 100 * contracts and
\* (width - credit) * 100 * contracts rounded to the cent, so both are >= 0
\* and their sum is within one cent of width * 100 * contracts; when
\* credit * 100 * contracts is a whole number of cents the sum is exactly
\* width * 100 * contracts and both are > 0.
C18_SpreadIdentityRounded ==
    SpreadReturned =>
        LET mp == rc_out.ret.max_profit[1]
            ml == rc_out.ret.max_loss
            exact_mp == rc_in.credit * rc_in.contracts
            exact_ml == (SpreadWidth - rc_in.credit) * rc_in.contracts
        IN  /\ Abs(10 * mp - exact_mp) <= 5
            /\ Abs(10 * ml - exact_ml) <= 5
            /\ mp >= 0
            /\ ml >= 0
            /\ Abs(mp + ml - SpreadWidthCents) <= 1
            /\ exact_mp % 10 = 0 =>
                  /\ mp + ml = SpreadWidthCents
                  /\ 10 * mp = exact_mp
                  /\ 10 * ml = exact_ml
                  /\ mp > 0
                  /\ ml > 0

\* width 1, one contract, credit 0.00005: max_profit 0.01 and max_loss 100.0
C18_Witness ==
    /\ SpreadReturned
    /\ SpreadWidth = PS
    /\ rc_in.contracts = 1
    /\ rc_in.credit = 5
    /\ rc_out.ret.max_profit = << 1 >>
    /\ rc_out.ret.max_loss = 100 * Cent

PickDone == rc_in.op = "pick" /\ rc_pc = "done"

\* C19: pick_best_strategy never fails; its result contains recommendation
\* whenever at least one candidate was generated, the constraint filter
\* falling back to the unfiltered candidates, and it is the error payload
\* without recommendation exactly when no candidate was generated.
C19_PickAlwaysReturns ==
    PickDone =>
        /\ rc_out.err = "none"
        /\ ("recommendation" \in DOMAIN rc_out.ret) <=> (Len(rc_cands) > 0)
        /\ ("error" \in DOMAIN rc_out.ret /\ "recommendation" \notin DOMAIN rc_out.ret)
              <=> (Len(rc_cands) = 0)

\* every candidate fails the constraints and one of them is recommended
C19_Witness ==
    /\ PickDone
    /\ Len(rc_cands) > 0
    /\ Len(rc_cons) = 0
    /\ "recommendation" \in DOMAIN rc_out.ret

\* no candidate was generated and the error payload is returned
C19_WitnessNone ==
    /\ PickDone
    /\ Len(rc_cands) = 0
    /\ "error" \in DOMAIN rc_out.ret

\* the recommendation is taken from the unfiltered candidates
Fallback == PickDone /\ Len(rc_cons) = 0 /\ Len(rc_cands) > 0

\* C20 as stated: when the constraint filter leaves nothing and the result
\* falls back to the unfiltered candidates, the result carries a diagnostic
\* error field.
C20_FallbackError == Fallback => "error" \in DOMAIN rc_out.ret

\* the candidates the selection is made from (line 206), read off the state
InUse == IF Len(rc_cons) > 0 THEN rc_cons ELSE rc_cands

Recommended == PickDone /\ "recommendation" \in DOMAIN rc_out.ret

\* 0.65 * expected_profit + 0.35 * (prob_profit * 100), in 1/QS of a dollar;
\* the product with -1e18 is kept as that sentinel
StatedScore(c) ==
    IF c.expected_profit = NegHuge THEN NegHuge
    ELSE 65 * c.expected_profit + 35 * c.prob_profit

\* the recommendation is the candidate c, scored and without _per_share
IsRecommended(c) ==
    [k \in DOMAIN rc_out.ret.recommendation \ { "score" } |->
         rc_out.ret.recommendation[k]]
      = [k \in DOMAIN c \ { "_per_share" } |-> c[k]]

\* generation order: single calls by strike, then spreads by short strike and
\* wing width
GeneratedBefore(c, d) ==
    IF c.strategy = "single_call"
    THEN d.strategy = "single_call" => c.legs.strike < d.legs.strike
    ELSE /\ d.strategy = "bull_put_credit_spread"
         /\ \/ c.legs.short_put < d.legs.short_put
            \/ /\ c.legs.short_put = d.legs.short_put
               /\ c.legs.long_put > d.legs.long_put

InGenerationOrder(cs) ==
    \A i \in 1..Len(cs) : \A j \in (i + 1)..Len(cs) :
        (~Placeholder(cs[i]) /\ ~Placeholder(cs[j])) => GeneratedBefore(cs[i], cs[j])

\* C21: the recommendation has the maximum score
\* 0.65 * expected_profit + 0.35 * (prob_profit * 100) among the candidates in
\* use and is the first of those with that score in generation order: single
\* calls in strike order before spreads, spreads by increasing short strike
\* and then increasing wing width.
C21_FirstMaximalScore ==
    Recommended =>
        /\ InGenerationOrder(InUse)
        /\ \E i \in 1..Len(InUse) :
              /\ IsRecommended(InUse[i])
              /\ \A j \in 1..Len(InUse) :
                    StatedScore(InUse[j]) <= StatedScore(InUse[i])
              /\ \A j \in 1..(i - 1) :
                    StatedScore(InUse[j]) < StatedScore(InUse[i])

\* two candidates in use share the maximum score and the earlier one is
\* recommended
C21_Witness ==
    /\ Recommended
    /\ \E i \in 1..Len(InUse) : \E j \in (i + 1)..Len(InUse) :
          /\ IsRecommended(InUse[i])
          /\ ~IsRecommended(InUse[j])
          /\ StatedScore(InUse[j]) = StatedScore(InUse[i])
          /\ ~Placeholder(InUse[j])

PickFiltered == rc_in.op = "pick" /\ rc_pc \in { "return", "done" }

\* the constraints of lines 190-199 other than min_reward_risk
PassesOtherConstraints(c, a) ==
    /\ ~("max_loss" \in DOMAIN c /\ a.max_loss_dollars # << >>
           /\ c.max_loss > a.max_loss_dollars[1])
    /\ ~(a.max_drawdown_dollars # << >>
           /\ Get(c, "var_worst_loss", 0) > a.max_drawdown_dollars[1])
    /\ Get(c, "expected_profit", NegHuge) >= a.min_expected_profit
    /\ Get(c, "prob_profit", 0) >= a.min_prob_profit

InConstrained(c) == \E j \in 1..Len(rc_cons) : rc_cons[j] = c

SingleCall(c) == ~Placeholder(c) /\ c.strategy = "single_call"

\* C22 as stated: for every min_reward_risk >= 0 a caller can pass, no
\* single_call candidate is removed from the constrained set because of
\* min_reward_risk: a single call that meets the other constraints is kept.
C22_CallsPassRewardRisk ==
    (PickFiltered /\ rc_in.min_reward_risk >= 0) =>
        \A i \in 1..Len(rc_cands) :
            (SingleCall(rc_cands[i]) /\ PassesOtherConstraints(rc_cands[i], rc_in))
                => InConstrained(rc_cands[i])

IVBisecting == iv.pc = "bisect"

\* the state part of C23: at the start of an iteration low < high, f_low and
\* f_high are f at low and at high and do not have the same strict sign, and
\* f_low has the sign f has at the original low endpoint; the value returned
\* lies in the bracket bisection started from
BracketKept ==
    /\ IVBisecting =>
          /\ iv.low < iv.high
          /\ iv.f_low = F(iv.low)
          /\ iv.f_high = F(iv.high)
          /\ SignProd(iv.f_low, iv.f_high) <= 0
          /\ Sign(iv.f_low) = Sign(F(iv_in.vol_low))
    /\ (IVDone /\ IVBracketed /\ iv_out.err = "none") =>
          /\ iv.b_low <= iv_out.implied_vol
          /\ iv_out.implied_vol <= iv.b_high

\* the step part of C23: an iteration that does not return keeps one of the
\* two halves of its interval
HalfKept ==
    (IVBisecting /\ iv'.pc = "bisect") =>
        \/ iv'.low = iv.low /\ iv'.high = Midpoint(iv.low, iv.high)
        \/ iv'.low = Midpoint(iv.low, iv.high) /\ iv'.high = iv.high

\* C23 as stated: during bisection the root stays bracketed: at the start of
\* every iteration low < high, f(low) * f(high) <= 0 and the sign of f(low)
\* is the one it had at the original low endpoint; the new interval is one of
\* the two halves of the previous one; the implied_vol returned lies inside
\* the bracket established before bisection.
C23_RootStaysBracketed == [](BracketKept) /\ [][HalfKept]_vars

\* the items of the chain with strike K
ItemsAt(K) == { x \in { rc_chain.items[m] : m \in 1..Len(rc_chain.items) } : x.strike = K }

\* oi >= min_oi, vol >= min_vol and
\* max(call spread_pct, put spread_pct) <= max_spread_pct
StatedLiquid(x) ==
    /\ x.oi >= rc_in.min_oi
    /\ x.vol >= rc_in.min_vol
    /\ x.call.spread_pct <= rc_in.max_spread_pct
    /\ x.put.spread_pct <= rc_in.max_spread_pct

LiquidAt(K) == ItemsAt(K) # {} /\ \A x \in ItemsAt(K) : StatedLiquid(x)

BullPut(c) == ~Placeholder(c) /\ c.strategy = "bull_put_credit_spread"

\* C24: every candidate uses only liquid strikes: the item of a single call's
\* strike, and the items of both strikes of a bull-put candidate, pass the
\* liquidity filter; a bull-put candidate has Klong = Kshort - w * step for a
\* w in {1, 2, 3}, Klong < Kshort <= spot and both strikes in the chain; no
\* candidate of a family is generated when its allow_ flag is false.
C24_LiquidStrikesOnly ==
    PickGenerated =>
        \A i \in 1..Len(rc_cands) :
            LET c == rc_cands[i]
            IN  /\ SingleCall(c) =>
                      /\ rc_in.allow_single_call
                      /\ LiquidAt(c.legs.strike)
                /\ BullPut(c) =>
                      /\ rc_in.allow_bull_put
                      /\ LiquidAt(c.legs.short_put)
                      /\ LiquidAt(c.legs.long_put)
                      /\ \E w \in 1..3 :
                            c.legs.long_put = c.legs.short_put - w * rc_chain.step
                      /\ c.legs.long_put < c.legs.short_put
                      /\ c.legs.short_put * Cent <= rc_in.spot
                /\ Placeholder(c) =>
                      /\ rc_in.allow_bull_put
                      /\ \E m \in 1..Len(rc_chain.items) :
                            /\ StatedLiquid(rc_chain.items[m])
                            /\ rc_chain.items[m].strike * Cent <= rc_in.spot
                            /\ c.meta = Meta(rc_chain.items[m])

\* the filter left out some strikes and kept others, and candidates of both
\* families were generated from the strikes kept
C24_Witness ==
    /\ PickGenerated
    /\ \E m \in 1..Len(rc_chain.items) : ~StatedLiquid(rc_chain.items[m])
    /\ \E i \in 1..Len(rc_cands) : SingleCall(rc_cands[i])
    /\ \E i \in 1..Len(rc_cands) :
          /\ BullPut(rc_cands[i])
          /\ ~LiquidAt(rc_cands[i].legs.long_put - rc_chain.step)
          /\ ItemsAt(rc_cands[i].legs.long_put - rc_chain.step) # {}

\* c meets every risk constraint of the call: max_loss <= max_loss_dollars and
\* var_worst_loss <= max_drawdown_dollars when those are given,
\* expected_profit >= min_expected_profit, prob_profit >= min_prob_profit and
\* reward_risk >= min_reward_risk
MeetsConstraints(c) ==
    /\ ~Placeholder(c)
    /\ rc_in.max_loss_dollars # << >> => c.max_loss <= rc_in.max_loss_dollars[1]
    /\ rc_in.max_drawdown_dollars # << >> =>
          c.var_worst_loss <= rc_in.max_drawdown_dollars[1]
    /\ c.expected_profit >= rc_in.min_expected_profit
    /\ c.prob_profit >= rc_in.min_prob_profit
    /\ c.reward_risk >= rc_in.min_reward_risk

SomeCandidateMeets == \E i \in 1..Len(rc_cands) : MeetsConstraints(rc_cands[i])

\* C25: if at least one generated candidate satisfies all risk constraints,
\* the recommendation returned satisfies all of them.
C25_RecommendationMeetsConstraints ==
    (Recommended /\ SomeCandidateMeets) =>
        MeetsConstraints(rc_out.ret.recommendation)

\* a candidate that fails a constraint scores higher than the recommendation,
\* which meets them all
C25_Witness ==
    /\ Recommended
    /\ SomeCandidateMeets
    /\ MeetsConstraints(rc_out.ret.recommendation)
    /\ \E i \in 1..Len(rc_cands) :
          /\ ~Placeholder(rc_cands[i])
          /\ ~MeetsConstraints(rc_cands[i])
          /\ StatedScore(rc_cands[i]) > StatedScore(rc_out.ret.recommendation)

\* C26 as stated: the recommendation is always a real strategy (single_call or
\* bull_put_credit_spread, with legs, max_loss and breakeven), never the
\* placeholder of a degenerate spread, whatever the constraints, and it never
\* contains the internal _per_share array.
C26_RealStrategyRecommended ==
    Recommended =>
        LET rec == rc_out.ret.recommendation
        IN  /\ { "strategy", "legs", "max_loss", "breakeven" } \subseteq DOMAIN rec
            /\ rec.strategy \in { "single_call", "bull_put_credit_spread" }
            /\ "_per_share" \notin DOMAIN rec

(***************************************************************************)
(* C27: tail risk and expected profit against the closed-form worst case   *)
(***************************************************************************)
\* the candidates of the state: the dict a direct call of ev_single_call or
\* ev_bull_put_credit returned, or the candidates pick_best_strategy generated
Evaluated ==
    IF rc_in.op \in { "spread", "call" } /\ rc_pc = "done"
    THEN { rc_out.ret }
    ELSE IF PickGenerated
         THEN { rc_cands[j] : j \in 1..Len(rc_cands) }
         ELSE { }

NonDegenerate(c) == SingleCall(c) \/ BullPut(c)

\* the dollar amount before round(., 2): premium (or credit) * 100 * contracts
UnroundedAmount(c) ==
    (IF SingleCall(c) THEN c.legs.premium ELSE c.legs.credit) * rc_in.contracts

WholeCents(c) == UnroundedAmount(c) % 10 = 0

TailBounds(c, slack) ==
    /\ 0 <= c.var_worst_loss
    /\ c.var_worst_loss <= c.max_loss + slack
    /\ -c.max_loss - slack <= c.expected_profit
    /\ BullPut(c) => c.expected_profit <= c.max_profit[1] + slack

\* C27 as stated: for every single-call candidate and every non-degenerate
\* bull-put candidate, 0 <= var_worst_loss <= max_loss and
\* -max_loss <= expected_profit, and for a bull-put spread
\* expected_profit <= max_profit, for every var_alpha, every set of simulated
\* terminal prices and every contracts >= 1.
C27_TailRiskBounded ==
    \A c \in Evaluated : NonDegenerate(c) => TailBounds(c, 0)

\* C27 as the code has it: the four returned fields are rounded to cents one by
\* one, so the bounds of C27 hold up to one cent, and hold exactly when
\* premium * 100 * contracts (credit * 100 * contracts for a spread) is a whole
\* number of cents.
C27_TailRiskBoundedRounded ==
    \A c \in Evaluated :
        NonDegenerate(c) =>
            /\ TailBounds(c, 1)
            /\ WholeCents(c) => TailBounds(c, 0)

\* a spread whose tail loss is its whole closed-form worst case, and a call
\* that loses its whole premium on average
C27_Witness ==
    \E c \in Evaluated :
        /\ BullPut(c)
        /\ WholeCents(c)
        /\ c.max_loss > 0
        /\ c.var_worst_loss = c.max_loss
        /\ c.expected_profit < c.max_profit[1]

C27_WitnessCall ==
    \E c \in Evaluated :
        /\ SingleCall(c)
        /\ rc_in.op = "call"
        /\ c.expected_profit = -c.max_loss
        /\ c.var_worst_loss = c.max_loss
        /\ c.max_loss > 0

(***************************************************************************)
(* C28: the strikes of the chain and of the candidates                     *)
(***************************************************************************)
\* the option strikes a candidate uses
CandidateStrikes(c) ==
    IF SingleCall(c) THEN { c.legs.strike }
    ELSE IF BullPut(c) THEN { c.legs.short_put, c.legs.long_put }
    ELSE { }

\* C28 as stated: for every spot > 0 accepted by the chain and recommend
\* endpoints, every item of the chain produced by make_chain has strike > 0,
\* so every option strike used by a recommender candidate is positive.
C28_StrikesPositive ==
    (rc_in.spot > 0 /\ rc_in.dte \in 1..365) =>
        /\ ChainDone => \A n \in 1..Len(rc_chain.items) : Strike(n) > 0
        /\ PickGenerated =>
              \A j \in 1..Len(rc_cands) :
                  \A K \in CandidateStrikes(rc_cands[j]) : K > 0

\* what the code has: the lowest strike is center - 12 * step, which is
\* positive exactly when the centre strike exceeds 12 steps
C28_LowestStrike ==
    ChainDone =>
        /\ Strike(1) = Strike(13) - 12 * rc_chain.step
        /\ (\A n \in 1..Len(rc_chain.items) : Strike(n) > 0)
              <=> Strike(13) > 12 * rc_chain.step

\* a recommendation for spot 5.00 and dte 30 whose strike is not positive
C28_NonPositiveRecommended ==
    /\ Recommended
    /\ rc_in.spot = 500
    /\ rc_in.dte = 30
    /\ \E K \in CandidateStrikes(rc_out.ret.recommendation) : K <= 0

(***************************************************************************)
(* Claims about the saved_items routes (api/saved.py, api/templates.py)    *)
(***************************************************************************)
StoredIds(rows) == { rows[n].id : n \in 1..Len(rows) }

Oversized(items) == \E n \in 1..Len(items) : items[n].raw > MaxRaw

\* the step is a call of import_all
ImportedNow == sv_out'.op = "import_all"

ImportAllOrNothing ==
    ImportedNow =>
        LET items == sv_out'.args
            body == sv_out'.body
        IN  IF Oversized(items)
            THEN /\ sv_out'.status = 413
                 /\ sv_rows' = sv_rows
            ELSE /\ sv_out'.status = 200
                 /\ body.imported = Len(items)
                 /\ Len(body.new_ids) = Len(items)
                 /\ \A n \in 1..Len(items) :
                       /\ body.new_ids[n] \notin StoredIds(sv_rows)
                       /\ \A k \in 1..(n - 1) : body.new_ids[k] < body.new_ids[n]
                 /\ sv_rows' = sv_rows \o
                       [n \in 1..Len(items) |->
                          Row(body.new_ids[n], items[n].kind, items[n].raw)]

\* C29: import_all is all-or-nothing: if any item of the request has a
\* serialized payload longer than 200000 characters the call fails with 413
\* and no item of that request is stored, the items before the oversized one
\* included; otherwise every item is stored, in request order, under a fresh
\* id distinct from all existing ids, and imported is the number of items.
C29_ImportAllOrNothing == [][ImportAllOrNothing]_vars

\* an import into a table with rows that fails on its second item, the first
\* one fitting
C29_Witness ==
    /\ sv_out.op = "import_all"
    /\ sv_out.status = 413
    /\ Len(sv_out.args) = 2
    /\ sv_out.args[1].raw <= MaxRaw
    /\ sv_out.args[2].raw > MaxRaw
    /\ sv_rows # << >>
    /\ sv_seq > Len(sv_rows)

\* an import of two items after a row was deleted
C29_WitnessStored ==
    /\ sv_out.op = "import_all"
    /\ sv_out.status = 200
    /\ Len(sv_out.args) = 2
    /\ sv_out.args[1] # sv_out.args[2]
    /\ Len(sv_rows) = 2
    /\ sv_seq = 3

\* the summaries list_items is to return: the newest limit rows after offset
StatedPage(limit, offset) ==
    LET rows == Page(sv_rows, limit, offset)
    IN  [n \in 1..Len(rows) |-> [id |-> rows[n].id, kind |-> rows[n].kind]]

\* C30 as stated: after any sequence of create, save_template, import_all,
\* delete_item and clear_all, export_all and list_items without a kind filter
\* succeed and return every stored row (list_items: the newest limit rows
\* after offset), whatever kinds the stored rows have.
C30_ReadsReturnEveryRow ==
    /\ sv_out.op = "export_all" =>
          /\ sv_out.status = 200
          /\ sv_out.body = sv_rows
    /\ (/\ sv_out.op = "list_items"
        /\ sv_out.args[1] \in 1..200
        /\ sv_out.args[2] >= 0
        /\ sv_out.args[3] = "None") =>
          /\ sv_out.status = 200
          /\ sv_out.body = StatedPage(sv_out.args[1], sv_out.args[2])

TemplateStored == \E n \in 1..Len(sv_rows) : sv_rows[n].kind = "template"

\* what the code has: the statement of C30 holds while no row of kind
\* "template" is stored, and export_all fails whenever one is
C30_ReadsWithoutTemplates ==
    /\ ~TemplateStored => C30_ReadsReturnEveryRow
    /\ (TemplateStored /\ sv_out.op = "export_all") => sv_out.status = 500

\* export_all answered 500 on a table of one template and one note
C30_ExportFails ==
    /\ sv_out.op = "export_all"
    /\ sv_out.status = 500
    /\ Len(sv_rows) = 2
    /\ sv_rows[1].kind = "template"
    /\ sv_rows[2].kind = "note"

====
